---- MODULE Spec2Model ----
(***************************************************************************)
(* Bag-of-Cells codec and cell finalizer of tonlib-rs.                     *)
(*                                                                         *)
(* Bytes are integers 0..255 and buffers are sequences of bytes.  A cell   *)
(* handle (ArcCell) is an index into the vector `cells` that               *)
(* BagOfCells::parse builds; a 32-byte digest is a sequence of 32 bytes.   *)
(* A fallible call returns a record whose field e is Ok, an error value    *)
(* (kind is the TonCellError variant) or a panic.                          *)
(***************************************************************************)
EXTENDS Integers, Sequences, FiniteSets, TLC

VARIABLES serial, build, pc, raw, cells, cur, res, round, orig, hq, chain, call, walk, steps

vars == <<serial, build, pc, raw, cells, cur, res, round, orig, hq, chain, call, walk, steps>>

(* ------------------------------ results ------------------------------ *)

Ok == [kind |-> "Ok", msg |-> ""]

BocDeserializationError(m) == [kind |-> "BocDeserializationError", msg |-> m]

BocSerializationError(m) == [kind |-> "BocSerializationError", msg |-> m]

CellParserError(m) == [kind |-> "CellParserError", msg |-> m]

CellBuilderError(m) == [kind |-> "CellBuilderError", msg |-> m]

InvalidIndex(idx, ref_count) ==
    [kind |-> "InvalidIndex", msg |-> "", idx |-> idx, ref_count |-> ref_count]

Panic(m) == [kind |-> "panic", msg |-> m]

IsOk(e) == e.kind = "Ok"

IsPanic(e) == e.kind = "panic"

IsErr(e) == ~IsOk(e) /\ ~IsPanic(e)

(* ------------------------------ bytes -------------------------------- *)

Pow2(n) == 2 ^ n

Min(a, b) == IF a < b THEN a ELSE b

Max(a, b) == IF a > b THEN a ELSE b

\* bit k (0 = least significant) of x
Bit(x, k) == (x \div Pow2(k)) % 2

BitAnd(x, y) == LET RECURSIVE A(_)
                    A(k) == IF k < 0 THEN 0
                            ELSE Bit(x, k) * Bit(y, k) * Pow2(k) + A(k - 1)
                IN A(7)

BitOr(x, y) == LET RECURSIVE O(_)
                   O(k) == IF k < 0 THEN 0
                           ELSE Max(Bit(x, k), Bit(y, k)) * Pow2(k) + O(k - 1)
               IN O(7)

\* u8::trailing_zeros
trailing_zeros(b) == IF b = 0 THEN 8
                     ELSE CHOOSE k \in 0..7 : Bit(b, k) = 1 /\ \A j \in 0..(k - 1) : Bit(b, j) = 0

Zeros(n) == [k \in 1..n |-> 0]

Take(s, n) == SubSeq(s, 1, Min(n, Len(s)))

Drop(s, n) == SubSeq(s, n + 1, Len(s))

\* big-endian bytes of v, n bytes wide (BitWriter::write(8 * n, v))
BE(v, n) == [k \in 1..n |-> (v \div Pow2(8 * (n - k))) % 256]

(* ---------------------------- raw.rs: parse --------------------------- *)

GENERIC_BOC_MAGIC == <<181, 238, 156, 114>>

\* Widths of the variable-size fields the inputs use; read_var_size keeps
\* the low WordBits bits of longer fields, whose value the code discards
\* (the hash and depth preamble of a cell record).
WordBits == 24

RECURSIVE FoldBE(_, _)
FoldBE(bytes, acc) == IF bytes = <<>> THEN acc
                      ELSE FoldBE(Tail(bytes), (acc % Pow2(WordBits - 8)) * 256 + Head(bytes))

\* ByteReader::read_to_vec(n): the next n bytes, or an io error
read_to_vec(s, pos, n) ==
    IF pos + n > Len(s)
    THEN [e |-> BocDeserializationError("failed to fill whole buffer"), val |-> <<>>, pos |-> pos]
    ELSE [e |-> Ok, val |-> SubSeq(s, pos + 1, pos + n), pos |-> pos + n]

read_var_size(s, pos, n) ==
    LET r == read_to_vec(s, pos, n)
    IN  IF IsOk(r.e) THEN [e |-> Ok, val |-> FoldBE(r.val, 0), pos |-> r.pos]
        ELSE [e |-> r.e, val |-> 0, pos |-> pos]

\* raw.rs get_level_from_mask: popcount of the low three bits, plus one
raw_get_level_from_mask(mask) == Bit(mask, 0) + Bit(mask, 1) + Bit(mask, 2) + 1

get_hash_count(level_mask) == raw_get_level_from_mask(level_mask % 8)

OrdinaryCell == 255

PrunnedBranchCell == 1

LibraryCell == 2

MerkleProofCell == 3

MerkleUpdateCell == 4

\* a resolve_cell_type that takes the first byte of an exotic cell as it is
resolve_unchecked(is_exotic, data) ==
    IF Len(data) = 0 \/ ~is_exotic THEN [cell_type |-> OrdinaryCell, is_exotic |-> FALSE]
    ELSE [cell_type |-> data[1], is_exotic |-> TRUE]

\* the pair (returned type, is_exotic afterwards)
resolve_cell_type(is_exotic, data) ==
    IF Len(data) = 0 THEN [cell_type |-> OrdinaryCell, is_exotic |-> FALSE]
    ELSE IF is_exotic /\ data[1] \in {PrunnedBranchCell, LibraryCell, MerkleProofCell, MerkleUpdateCell}
         THEN [cell_type |-> data[1], is_exotic |-> is_exotic]
         ELSE [cell_type |-> OrdinaryCell, is_exotic |-> FALSE]

NoRawCell == [data |-> <<>>, bit_len |-> 0, references |-> <<>>, max_level |-> 0,
              cell_type |-> OrdinaryCell, is_exotic |-> FALSE, has_hashes |-> FALSE]

RECURSIVE read_refs(_, _, _, _, _)
read_refs(s, pos, size, n, acc) ==
    IF n = 0 THEN [e |-> Ok, val |-> acc, pos |-> pos]
    ELSE LET r == read_var_size(s, pos, size)
         IN  IF IsOk(r.e) THEN read_refs(s, r.pos, size, n - 1, Append(acc, r.val))
             ELSE [e |-> r.e, val |-> acc, pos |-> pos]

\* a strip_padding that leaves the padding bit in the last byte
keep_padding(data, full_bytes) ==
    [e |-> Ok, data |-> data,
     padding_len |-> IF Len(data) > 0 /\ ~full_bytes THEN trailing_zeros(data[Len(data)]) + 1 ELSE 0]

\* the padding of a partial last byte is stripped after the data is read
strip_padding(data, full_bytes) ==
    IF Len(data) > 0 /\ ~full_bytes
    THEN LET last == data[Len(data)]
             num_zeros == trailing_zeros(last)
         IN  IF num_zeros >= 8
             THEN [e |-> BocDeserializationError("Last byte of binary must not be zero if full_byte flag is not set"),
                   data |-> data, padding_len |-> 0]
             ELSE [e |-> Ok, data |-> [data EXCEPT ![Len(data)] = last - Pow2(num_zeros)],
                   padding_len |-> num_zeros + 1]
    ELSE [e |-> Ok, data |-> data, padding_len |-> 0]

read_cell(s, pos0, size) ==
    LET fail(e) == [e |-> e, val |-> NoRawCell, pos |-> pos0]
        rd1 == read_to_vec(s, pos0, 1)
        rd2 == read_to_vec(s, rd1.pos, 1)
        d1 == rd1.val[1]
        d2 == rd2.val[1]
        max_level == d1 \div 32
        is_exotic == Bit(d1, 3) = 1
        ref_num == d1 % 8
        data_size == (d2 \div 2) + (d2 % 2)
        full_bytes == d2 % 2 = 0
        has_hashes == Bit(d1, 4) = 1
        hashes_size == IF has_hashes THEN get_hash_count(max_level) * 32 ELSE 0
        depth_size == IF has_hashes THEN get_hash_count(max_level) * 2 ELSE 0
        rh == read_var_size(s, rd2.pos, hashes_size)
        rdp == read_var_size(s, rh.pos, depth_size)
        rdata == read_to_vec(s, rdp.pos, data_size)
        pad == strip_padding(rdata.val, full_bytes)
        bit_len == Len(pad.data) * 8 - pad.padding_len
        rrefs == read_refs(s, rdata.pos, size, ref_num, <<>>)
        ct == resolve_cell_type(is_exotic, pad.data)
    IN  IF ~IsOk(rd1.e) THEN fail(rd1.e)
        ELSE IF ~IsOk(rd2.e) THEN fail(rd2.e)
        ELSE IF ~IsOk(rh.e) THEN fail(rh.e)
        ELSE IF ~IsOk(rdp.e) THEN fail(rdp.e)
        ELSE IF ~IsOk(rdata.e) THEN fail(rdata.e)
        ELSE IF ~IsOk(pad.e) THEN fail(pad.e)
        ELSE IF ~IsOk(rrefs.e) THEN fail(rrefs.e)
        ELSE [e |-> Ok,
              val |-> [data |-> pad.data, bit_len |-> bit_len, references |-> rrefs.val,
                       max_level |-> max_level, cell_type |-> ct.cell_type,
                       is_exotic |-> ct.is_exotic, has_hashes |-> has_hashes],
              pos |-> rrefs.pos]

RECURSIVE read_cells(_, _, _, _, _)
read_cells(s, pos, size, n, acc) ==
    IF n = 0 THEN [e |-> Ok, val |-> acc, pos |-> pos]
    ELSE LET r == read_cell(s, pos, size)
         IN  IF IsOk(r.e) THEN read_cells(s, r.pos, size, n - 1, Append(acc, r.val))
             ELSE [e |-> r.e, val |-> acc, pos |-> pos]

\* SHA-256 is modelled by a 16-bit rolling digest of the whole input, written
\* into the last two of the 32 digest bytes
DigestMod == 32749

\* 31^k modulo DigestMod
RECURSIVE PowMod(_)
PowMod(k) == IF k = 0 THEN 1
             ELSE LET h == PowMod(k \div 2)
                  IN  (((h * h) % DigestMod) * (IF k % 2 = 1 THEN 31 ELSE 1)) % DigestMod

\* the digest of bytes[lo..hi] started from 0: each byte b takes the digest
\* acc to (acc * 31 + b + 1) modulo DigestMod
RECURSIVE Poly(_, _, _)
Poly(bytes, lo, hi) ==
    IF lo > hi THEN 0
    ELSE IF lo = hi THEN (bytes[lo] + 1) % DigestMod
    ELSE LET mid == (lo + hi) \div 2
         IN  (Poly(bytes, lo, mid) * PowMod(hi - mid) + Poly(bytes, mid + 1, hi)) % DigestMod

Roll(bytes, acc) == ((acc % DigestMod) * PowMod(Len(bytes)) + Poly(bytes, 1, Len(bytes))) % DigestMod

\* CRC-32C is modelled by the rolling digest, as four little-endian bytes
crc32c(bytes) == <<Roll(bytes, 0) % 256, Roll(bytes, 0) \div 256, 0, 0>>

\* a reader that compares the stored checksum with the one of the bytes
\* before it
read_crc32c_verified(s, pos, has_crc32c) ==
    IF ~has_crc32c THEN [e |-> Ok, val |-> <<>>, pos |-> pos]
    ELSE IF ~IsOk(read_to_vec(s, pos, 4).e) THEN read_to_vec(s, pos, 4)
    ELSE IF read_to_vec(s, pos, 4).val # crc32c(SubSeq(s, 1, pos))
         THEN [e |-> BocDeserializationError("crc32c mismatch"), val |-> <<>>, pos |-> pos]
         ELSE read_to_vec(s, pos, 4)

\* crc32c:has_crc32c?uint32 is read into _crc32c and never compared
read_crc32c(s, pos, has_crc32c) ==
    IF has_crc32c THEN read_to_vec(s, pos, 4)
    ELSE [e |-> Ok, val |-> <<>>, pos |-> pos]

NoRawBag == [cells |-> <<>>, roots |-> <<>>]

RawBagOfCells_parse(s) ==
    LET fail(e) == [e |-> e, val |-> NoRawBag]
        rmagic == read_to_vec(s, 0, 4)
        rheader == read_to_vec(s, 4, 1)
        header == rheader.val[1]
        has_idx == Bit(header, 7) = 1
        has_crc32c == Bit(header, 6) = 1
        size_bytes == header % 8
        roff == read_to_vec(s, rheader.pos, 1)
        off_bytes == roff.val[1]
        rcells == read_var_size(s, roff.pos, size_bytes)
        rroots == read_var_size(s, rcells.pos, size_bytes)
        rabsent == read_var_size(s, rroots.pos, size_bytes)
        rtot == read_var_size(s, rabsent.pos, off_bytes)
        rlist == read_refs(s, rtot.pos, size_bytes, rroots.val, <<>>)
        ridx == IF has_idx THEN read_refs(s, rlist.pos, off_bytes, rcells.val, <<>>)
                ELSE [e |-> Ok, val |-> <<>>, pos |-> rlist.pos]
        total_bytes_unread == Len(s) - ridx.pos
        rvec == read_cells(s, ridx.pos, size_bytes, rcells.val, <<>>)
        rcrc == read_crc32c(s, rvec.pos, has_crc32c)
    IN  IF ~IsOk(rmagic.e) THEN fail(rmagic.e)
        ELSE IF rmagic.val # GENERIC_BOC_MAGIC
             THEN fail(BocDeserializationError("Unsupported cell magic number"))
        ELSE IF ~IsOk(rheader.e) THEN fail(rheader.e)
        ELSE IF ~IsOk(roff.e) THEN fail(roff.e)
        ELSE IF ~IsOk(rcells.e) THEN fail(rcells.e)
        ELSE IF ~IsOk(rroots.e) THEN fail(rroots.e)
        ELSE IF ~IsOk(rabsent.e) THEN fail(rabsent.e)
        ELSE IF ~IsOk(rtot.e) THEN fail(rtot.e)
        ELSE IF ~IsOk(rlist.e) THEN fail(rlist.e)
        ELSE IF ~IsOk(ridx.e) THEN fail(ridx.e)
        ELSE IF total_bytes_unread < rtot.val
             THEN fail(BocDeserializationError("Not enough bytes for cells data"))
        ELSE IF ~IsOk(rvec.e) THEN fail(rvec.e)
        ELSE IF ~IsOk(rcrc.e) THEN fail(rcrc.e)
        ELSE [e |-> Ok, val |-> [cells |-> rvec.val, roots |-> rlist.val]]

(* --------------------------- bit_reader.rs ---------------------------- *)

\* BitArrayReader::get reads array[n / 8]: inside the buffer or a panic
bits_in_range(array, start, n) == start + n <= Len(array) * 8

get(array, n) == Bit(array[(n \div 8) + 1], 7 - (n % 8))

\* BitArrayReader::get_range: the result vector is created empty and then
\* indexed, so every call with n > 0 panics on its first bit
get_range(array, start, n) ==
    IF n = 0 THEN [e |-> Ok, val |-> <<>>]
    ELSE [e |-> Panic("index out of bounds"), val |-> <<>>]

read_uint(array, start, bit_length) ==
    LET RECURSIVE R(_, _)
        R(i, acc) == IF i = start + bit_length THEN acc
                     ELSE R(i + 1, acc * 2 + get(array, i))
    IN  IF bit_length < 1 THEN [e |-> Panic("Incorrect bitLength"), val |-> 0]
        ELSE IF ~bits_in_range(array, start, bit_length)
             THEN [e |-> Panic("index out of bounds"), val |-> 0]
             ELSE [e |-> Ok, val |-> R(start, 0)]

read_uint8(array, start) == read_uint(array, start, 8)

read_uint16(array, start) == read_uint(array, start, 16)

\* data cut to ceil(cursor / 8) bytes with a 1 bit and zeros written after
\* the cursor-th bit of a partial last byte
get_top_upped_array(array, cursor) ==
    LET tu == ((cursor + 7) \div 8) * 8 - cursor
        last == array[(cursor \div 8) + 1]
        keep == (last \div Pow2(tu)) * Pow2(tu)
        topped == [array EXCEPT ![(cursor \div 8) + 1] = keep + Pow2(tu - 1)]
    IN  IF tu > 0
        THEN IF cursor > Len(array) * 8
             THEN [e |-> CellParserError("Bit data overflow"), val |-> <<>>]
             ELSE [e |-> Ok, val |-> Take(topped, (cursor + 7) \div 8)]
        ELSE [e |-> Ok, val |-> Take(array, cursor \div 8)]

(* ------------------------------ cell.rs ------------------------------- *)

HASH_BYTES == 32

DEPTH_BYTES == 2

Sha256(bytes) == Zeros(HASH_BYTES - 2) \o BE(Roll(bytes, Len(bytes)), 2)

NoCell == [data |-> <<>>, bit_len |-> 0, references |-> <<>>, cell_type |-> OrdinaryCell,
           level_mask |-> 0, is_exotic |-> FALSE, has_hashes |-> FALSE, proof |-> FALSE,
           hashes |-> <<>>, depth |-> <<>>]

Cell_get_level_from_mask(mask) ==
    IF mask = 0 THEN 0
    ELSE IF mask \div 2 = 0 THEN 1
    ELSE IF mask \div 4 = 0 THEN 2
    ELSE 3

\* a count by the highest set bit instead of by the set bits: 4 for mask 5
hashes_count_by_level(mask) == Cell_get_level_from_mask(mask) + 1

get_hashes_count_from_mask(mask) == Bit(mask, 0) + Bit(mask, 1) + Bit(mask, 2) + 1

get_level(c) == Cell_get_level_from_mask(c.level_mask % 8)

get_hashes_count(c) == get_hashes_count_from_mask(c.level_mask % 8)

is_level_significant(c, level) == level = 0 \/ Bit(c.level_mask, level - 1) = 1

apply_level_mask(c, level) == c.level_mask % Pow2(level)

\* a reference that gives the last reference for an index out of range
reference_or_last(c, idx) ==
    IF c.references = <<>> THEN [e |-> InvalidIndex(idx, 0), val |-> 0]
    ELSE [e |-> Ok, val |-> c.references[IF idx + 1 <= Len(c.references) THEN idx + 1
                                         ELSE Len(c.references)]]

\* Cell::reference
reference(c, idx) == IF idx + 1 <= Len(c.references)
                     THEN [e |-> Ok, val |-> c.references[idx + 1]]
                     ELSE [e |-> InvalidIndex(idx, Len(c.references)), val |-> 0]

RECURSIVE get_level_mask(_, _)
get_level_mask(cs, c) ==
    LET sub(i) == LET r == reference(c, i)
                  IN  IF IsOk(r.e) THEN get_level_mask(cs, cs[r.val]) ELSE [e |-> r.e, val |-> 0]
        RECURSIVE orAll(_, _)
        orAll(i, acc) == IF i = Len(c.references) THEN [e |-> Ok, val |-> acc]
                         ELSE LET m == sub(i)
                              IN  IF IsOk(m.e) THEN orAll(i + 1, BitOr(acc, m.val)) ELSE m
    IN  IF c.is_exotic /\ c.cell_type # LibraryCell
        THEN IF c.cell_type = PrunnedBranchCell THEN [e |-> Ok, val |-> c.level_mask]
             ELSE IF c.cell_type = MerkleProofCell
                  THEN LET m == sub(0)
                       IN  IF IsOk(m.e) THEN [e |-> Ok, val |-> m.val \div 2] ELSE m
             ELSE IF c.cell_type = MerkleUpdateCell
                  THEN LET m0 == sub(0)
                           m1 == sub(1)
                       IN  IF ~IsOk(m0.e) THEN m0
                           ELSE IF ~IsOk(m1.e) THEN m1
                           ELSE [e |-> Ok, val |-> BitOr(m0.val, m1.val \div 2)]
             ELSE [e |-> CellParserError("Unknown special cell type"), val |-> 0]
        ELSE orAll(0, 0)

get_hash(c, level) ==
    LET hash_i == get_hashes_count_from_mask(apply_level_mask(c, level)) - 1
        this_hash_i == get_hashes_count(c) - 1
        idx == IF c.cell_type = PrunnedBranchCell THEN 0 ELSE hash_i
    IN  IF c.cell_type = PrunnedBranchCell /\ hash_i # this_hash_i
        THEN get_range(c.data, 16 + hash_i * HASH_BYTES * 8, 256)
        ELSE IF idx + 1 <= Len(c.hashes) THEN [e |-> Ok, val |-> c.hashes[idx + 1]]
             ELSE [e |-> Panic("index out of bounds"), val |-> <<>>]

get_depth(c, level) ==
    LET hash_i == get_hashes_count_from_mask(apply_level_mask(c, level)) - 1
        this_hash_i == get_hashes_count(c) - 1
        idx == IF c.cell_type = PrunnedBranchCell THEN 0 ELSE hash_i
    IN  IF c.cell_type = PrunnedBranchCell /\ hash_i # this_hash_i
        THEN read_uint16(c.data, 16 + this_hash_i * HASH_BYTES * 8 + hash_i * DEPTH_BYTES * 8)
        ELSE IF idx + 1 <= Len(c.depth) THEN [e |-> Ok, val |-> c.depth[idx + 1]]
             ELSE [e |-> Panic("index out of bounds"), val |-> 0]

RECURSIVE get_max_depth(_, _)
get_max_depth(cs, c) ==
    LET RECURSIVE M(_, _)
        M(i, acc) == IF i > Len(c.references) THEN acc
                     ELSE M(i + 1, Max(acc, get_max_depth(cs, cs[c.references[i]])))
    IN  IF Len(c.references) # 0 THEN M(1, 0) + 1 ELSE 0

\* d1 for a given level mask (the Some(level_mask) call; proof is false)
get_refs_descriptor(c, level_mask) ==
    (Len(c.references) + (IF c.is_exotic THEN 1 ELSE 0) * 8 + level_mask * 32) % 256

\* u8 arithmetic: with overflow checks (debug build) an overflow panics,
\* without them (release build) it wraps
get_bits_descriptor(c, bld) ==
    LET len8 == Len(c.data) % 256
        full_bytes == c.bit_len % 8 = 0
        sub == IF full_bytes THEN 0 ELSE 1
        prod == len8 * 2
    IN  IF prod > 255 /\ bld = "debug"
        THEN [e |-> Panic("attempt to multiply with overflow"), val |-> 0]
        ELSE IF (prod % 256) - sub < 0 /\ bld = "debug"
             THEN [e |-> Panic("attempt to subtract with overflow"), val |-> 0]
             ELSE [e |-> Ok, val |-> ((prod % 256) - sub + 256) % 256]

depth_to_array(depth) == <<(depth \div 256) % 256, depth % 256>>

\* the level a child is asked for: one higher below a Merkle cell
child_level(c, level_i) ==
    IF c.cell_type = MerkleProofCell \/ c.cell_type = MerkleUpdateCell
    THEN level_i + 1 ELSE level_i

\* the child-depth loop of one level: the depth bytes appended to repr and
\* the maximum, or the first panic of a child's get_depth
RECURSIVE child_depths(_, _, _, _, _, _)
child_depths(cs, c, level_i, k, bytes, depth) ==
    IF k > Len(c.references) THEN [e |-> Ok, bytes |-> bytes, depth |-> depth]
    ELSE LET d == get_depth(cs[c.references[k]], child_level(c, level_i))
         IN  IF ~IsOk(d.e) THEN [e |-> d.e, bytes |-> bytes, depth |-> depth]
             ELSE child_depths(cs, c, level_i, k + 1, bytes \o depth_to_array(d.val),
                               Max(depth, d.val))

RECURSIVE child_hashes(_, _, _, _, _)
child_hashes(cs, c, level_i, k, bytes) ==
    IF k > Len(c.references) THEN [e |-> Ok, bytes |-> bytes]
    ELSE LET h == get_hash(cs[c.references[k]], child_level(c, level_i))
         IN  IF ~IsOk(h.e) THEN [e |-> h.e, bytes |-> bytes]
             ELSE child_hashes(cs, c, level_i, k + 1, bytes \o h.val)

MaxDepth == 1024

\* the check that precedes `depth += 1`
depth_too_big(depth) == depth >= MaxDepth

\* one computed level of the hash loop: repr, depth and hash of level_i
level_repr(cs, c, bld, level_i, first, prev_hash) ==
    LET fail(e) == [e |-> e, repr |-> <<>>, depth |-> 0]
        with_hashes(d1, d2, own, cd, ch) ==
            IF ~IsOk(ch.e) THEN fail(ch.e)
            ELSE [e |-> Ok,
                  repr |-> <<d1, d2>> \o own \o cd.bytes \o ch.bytes,
                  depth |-> (IF Len(c.references) # 0 THEN cd.depth + 1 ELSE cd.depth) % 65536]
        with_depths(d1, d2, own, cd) ==
            IF ~IsOk(cd.e) THEN fail(cd.e)
            ELSE IF Len(c.references) # 0 /\ depth_too_big(cd.depth)
                 THEN fail(BocDeserializationError("Depth is too big"))
            ELSE with_hashes(d1, d2, own, cd, child_hashes(cs, c, level_i, 1, <<>>))
        with_own(d1, d2, tua) ==
            IF first /\ level_i # 0 /\ c.cell_type # PrunnedBranchCell
            THEN fail(BocDeserializationError("Cannot deserialize cell"))
            ELSE IF first /\ ~IsOk(tua.e) THEN fail(tua.e)
            ELSE IF ~first /\ (level_i = 0 \/ c.cell_type = PrunnedBranchCell)
                 THEN fail(BocDeserializationError("Cannot deserialize cell"))
            ELSE with_depths(d1, d2, IF first THEN tua.val ELSE prev_hash,
                             child_depths(cs, c, level_i, 1, <<>>, 0))
        with_d2(d1, d2) ==
            IF ~IsOk(d2.e) THEN fail(d2.e)
            ELSE with_own(d1, d2.val,
                          IF first THEN get_top_upped_array(c.data, c.bit_len)
                          ELSE [e |-> Ok, val |-> <<>>])
    IN  with_d2(get_refs_descriptor(c, apply_level_mask(c, level_i)), get_bits_descriptor(c, bld))

\* the number of entries of hashes and depth
hash_count(c) == IF c.cell_type = PrunnedBranchCell THEN 1 ELSE get_hashes_count(c)

\* the loop `for level_i in 0..=level` over a cell whose type and level
\* mask are settled; hashes and depth start as hash_count placeholders
RECURSIVE hash_loop(_, _, _, _, _, _, _)
hash_loop(cs, c, bld, level_i, hash_i, hashes, depth) ==
    LET step(hash_i_offset, dest_i) ==
            LET computed(lr) ==
                    IF ~IsOk(lr.e) THEN [e |-> lr.e, hashes |-> hashes, depth |-> depth]
                    ELSE hash_loop(cs, c, bld, level_i + 1, hash_i + 1,
                                   [hashes EXCEPT ![dest_i + 1] = Sha256(lr.repr)],
                                   [depth EXCEPT ![dest_i + 1] = lr.depth])
            IN  IF hash_i < hash_i_offset
                THEN hash_loop(cs, c, bld, level_i + 1, hash_i + 1, hashes, depth)
                ELSE computed(level_repr(cs, c, bld, level_i, hash_i = hash_i_offset,
                                         IF dest_i >= 1 THEN hashes[dest_i] ELSE <<>>))
        from(hash_i_offset) == step(hash_i_offset, hash_i - hash_i_offset)
    IN  IF level_i > get_level(c) THEN [e |-> Ok, hashes |-> hashes, depth |-> depth]
        ELSE IF ~is_level_significant(c, level_i)
             THEN hash_loop(cs, c, bld, level_i + 1, hash_i, hashes, depth)
        ELSE from(get_hashes_count(c) - hash_count(c))

\* the level mask an Ordinary cell ends with: the children's masks are
\* or-ed into the mask the cell was constructed with
ordinary_level_mask(cs, c) ==
    LET RECURSIVE O(_, _)
        O(k, acc) == IF k > Len(c.references) THEN acc
                     ELSE O(k + 1, BitOr(acc, cs[c.references[k]].level_mask))
    IN  IF c.proof # TRUE THEN O(1, c.level_mask) ELSE c.level_mask

\* the structural checks of a PrunnedBranch cell
check_pruned(c) ==
    LET lm == read_uint8(c.data, 8)
        c1 == [c EXCEPT !.level_mask = lm.val]
        level == get_level(c1)
        hashes == get_hashes_count_from_mask(apply_level_mask(c1, level - 1))
    IN  IF Len(c.references) # 0
        THEN [e |-> BocDeserializationError("PrunnedBranch special cell has a cell reference"), c |-> c]
        ELSE IF Len(c.data) < 16
             THEN [e |-> BocDeserializationError("Not enough data for a PrunnedBranch special cell"), c |-> c]
        ELSE IF level > 3 \/ level = 0
             THEN [e |-> BocDeserializationError("Prunned Branch has an invalid level"), c |-> c1]
        ELSE IF Len(c.data) * 8 < (2 + hashes * (HASH_BYTES + DEPTH_BYTES)) * 8
             THEN [e |-> BocDeserializationError("Not enouch data for a PrunnedBranch special cell"), c |-> c1]
        ELSE [e |-> Ok, c |-> c1]

check_library(c) ==
    IF Len(c.data) * 8 < 8 + HASH_BYTES * 8
    THEN [e |-> BocDeserializationError("Not enouch data for a Library special cell"), c |-> c]
    ELSE [e |-> Ok, c |-> c]

check_merkle_proof(cs, c) ==
    LET merkle_hash == get_range(c.data, 8, HASH_BYTES * 8)
        child == cs[c.references[1]]
        child_hash == get_hash(child, 0)
        d == read_uint16(c.data, 8 + HASH_BYTES * 8)
        child_depth == get_depth(child, 0)
    IN  IF Len(c.data) * 8 # 8 + (HASH_BYTES + DEPTH_BYTES) * 8
        THEN [e |-> BocDeserializationError("Not enouch data for a MerkleProof special cell"), c |-> c]
        ELSE IF Len(c.references) # 1
             THEN [e |-> BocDeserializationError("Wrong references count for a MerkleProof special cell"), c |-> c]
        ELSE IF ~IsOk(merkle_hash.e) THEN [e |-> merkle_hash.e, c |-> c]
        ELSE IF ~IsOk(child_hash.e) THEN [e |-> child_hash.e, c |-> c]
        ELSE IF merkle_hash.val # child_hash.val
             THEN [e |-> BocDeserializationError("Hash mismatch in a MerkleProof special cell"), c |-> c]
        ELSE IF ~IsOk(d.e) THEN [e |-> d.e, c |-> c]
        ELSE IF ~IsOk(child_depth.e) THEN [e |-> child_depth.e, c |-> c]
        ELSE IF d.val # child_depth.val % 65536
             THEN [e |-> BocDeserializationError("Depth mismatch in a MerkleProof special cell"), c |-> c]
        ELSE [e |-> Ok, c |-> [c EXCEPT !.level_mask = child.level_mask \div 2]]

\* the level mask finalize stores in a Merkle-update cell:
\* (references[0].level_mask | references[1].level_mask) >> 1
update_level_mask(child0, child1) == BitOr(child0.level_mask, child1.level_mask) \div 2

check_merkle_update(cs, c) ==
    LET merkle_hash_0 == get_range(c.data, 8, HASH_BYTES * 8)
        child0 == cs[c.references[1]]
        child1 == cs[c.references[2]]
        child_hash_0 == get_hash(child0, 0)
        d0 == read_uint16(c.data, 8 + 16 * HASH_BYTES)
        d1 == read_uint16(c.data, 8 + 16 * HASH_BYTES + DEPTH_BYTES * 8)
        cd0 == get_depth(child0, 0)
        cd1 == get_depth(child1, 0)
    IN  IF Len(c.data) * 8 # 8 + (HASH_BYTES + DEPTH_BYTES) * 8 * 2
        THEN [e |-> BocDeserializationError("Not enouch data for a MerkleUpdate special cell"), c |-> c]
        ELSE IF Len(c.references) # 2
             THEN [e |-> BocDeserializationError("Wrong references count for a MerkleUpdate special cell"), c |-> c]
        ELSE IF ~IsOk(merkle_hash_0.e) THEN [e |-> merkle_hash_0.e, c |-> c]
        ELSE IF ~IsOk(child_hash_0.e) THEN [e |-> child_hash_0.e, c |-> c]
        ELSE IF merkle_hash_0.val # child_hash_0.val
             THEN [e |-> BocDeserializationError("First hash mismatch in a MerkleUpdate special cell"), c |-> c]
        ELSE IF ~IsOk(d0.e) THEN [e |-> d0.e, c |-> c]
        ELSE IF ~IsOk(cd0.e) THEN [e |-> cd0.e, c |-> c]
        ELSE IF d0.val # cd0.val % 65536
             THEN [e |-> BocDeserializationError("First depth mismatch in a MerkleUpdate special cell"), c |-> c]
        ELSE IF ~IsOk(d1.e) THEN [e |-> d1.e, c |-> c]
        ELSE IF ~IsOk(cd1.e) THEN [e |-> cd1.e, c |-> c]
        ELSE IF d1.val # cd1.val % 65536
             THEN [e |-> BocDeserializationError("Second depth mismatch in a MerkleUpdate special cell"), c |-> c]
        ELSE [e |-> Ok,
              c |-> [c EXCEPT !.level_mask = update_level_mask(child0, child1)]]

\* Cell::finalize on cell c0 whose references index cs: the error or panic,
\* or the cell with cell_type, level_mask, hashes and depth set
finalize(cs, c0, bld) ==
    LET hashed(c, hl) ==
            IF ~IsOk(hl.e) THEN [e |-> hl.e, c |-> c]
            ELSE [e |-> Ok, c |-> [c EXCEPT !.hashes = hl.hashes, !.depth = hl.depth]]
        hash(checked, n) ==
            IF ~IsOk(checked.e) THEN checked
            ELSE hashed(checked.c,
                        hash_loop(cs, checked.c, bld, 0, 0, [k \in 1..n |-> <<>>], [k \in 1..n |-> 0]))
        check(c) ==
            IF c.cell_type = OrdinaryCell
            THEN [e |-> Ok, c |-> [c EXCEPT !.level_mask = ordinary_level_mask(cs, c)]]
            ELSE IF c.cell_type = PrunnedBranchCell THEN check_pruned(c)
            ELSE IF c.cell_type = LibraryCell THEN check_library(c)
            ELSE IF c.cell_type = MerkleProofCell THEN check_merkle_proof(cs, c)
            ELSE IF c.cell_type = MerkleUpdateCell THEN check_merkle_update(cs, c)
            ELSE [e |-> Panic("unwrap on a None value"), c |-> c]
        counted(checked) == hash(checked, hash_count(checked.c))
        typed(t) ==
            IF ~IsOk(t.e) THEN [e |-> t.e, c |-> c0]
            ELSE IF t.val = OrdinaryCell
                 THEN [e |-> BocDeserializationError("Special cell has Ordinary type"), c |-> c0]
            ELSE counted(check([c0 EXCEPT !.cell_type = t.val]))
    IN  IF c0.is_exotic
        THEN IF c0.bit_len < 8
             THEN [e |-> BocDeserializationError("Not enough data for a special cell"), c |-> c0]
             ELSE typed(read_uint8(c0.data, 0))
        ELSE counted(check([c0 EXCEPT !.cell_type = OrdinaryCell]))

(* ------------------------ bag_of_cells.rs: parse ---------------------- *)

\* the Cell that the loop constructs from a raw cell, before its references
new_cell(raw_cell) ==
    [data |-> raw_cell.data, bit_len |-> raw_cell.bit_len, references |-> <<>>,
     cell_type |-> raw_cell.cell_type, level_mask |-> raw_cell.max_level,
     is_exotic |-> raw_cell.is_exotic, has_hashes |-> raw_cell.has_hashes,
     proof |-> FALSE, hashes |-> <<>>, depth |-> <<>>]

\* a check that lets a cell reference itself
is_strictly_previous(r, i) == r < i

\* the check on reference r of the cell at index i
is_previous(r, i) == r <= i

\* the loop over raw_cell.references: a reference r is resolved to
\* cells[num_cells - 1 - r], handle num_cells - r of the vector built so far
\* num_cells - 1 - r for r > num_cells - 1: the subtraction panics where
\* overflow is checked, and wraps to an index past the vector elsewhere
index_underflow(bld) ==
    IF bld = "debug" THEN Panic("attempt to subtract with overflow")
    ELSE Panic("index out of bounds")

RECURSIVE resolve_refs(_, _, _, _, _, _)
resolve_refs(refs, i, num_cells, built, acc, bld) ==
    IF refs = <<>> THEN [e |-> Ok, val |-> acc]
    ELSE LET r == Head(refs)
         IN  IF is_previous(r, i)
             THEN [e |-> BocDeserializationError("References to previous cells are not supported"),
                   val |-> acc]
             ELSE IF r > num_cells - 1
                  THEN [e |-> index_underflow(bld), val |-> acc]
             ELSE IF num_cells - 1 - r >= built
                  THEN [e |-> Panic("index out of bounds"), val |-> acc]
             ELSE resolve_refs(Tail(refs), i, num_cells, built, Append(acc, num_cells - r), bld)

\* one iteration of `for i in (0..num_cells).rev()`
parse_cell(rawbag, i, cs, bld) ==
    LET finalized(cell, fin) ==
            [e |-> fin.e, before |-> cell, c |-> fin.c, finalized |-> TRUE]
        built(cell) == finalized(cell, finalize(cs, cell, bld))
        resolved(raw_cell, refs) ==
            IF ~IsOk(refs.e)
            THEN [e |-> refs.e, before |-> [new_cell(raw_cell) EXCEPT !.references = refs.val],
                  c |-> NoCell, finalized |-> FALSE]
            ELSE built([new_cell(raw_cell) EXCEPT !.references = refs.val])
        at(raw_cell) ==
            resolved(raw_cell,
                     resolve_refs(raw_cell.references, i, Len(rawbag.cells), Len(cs), <<>>, bld))
    IN  at(rawbag.cells[i + 1])

\* raw.roots.iter().map(|r| cells[num_cells - 1 - r])
RECURSIVE map_roots(_, _, _, _)
map_roots(roots, num_cells, acc, bld) ==
    IF roots = <<>> THEN [e |-> Ok, val |-> acc]
    ELSE IF Head(roots) > num_cells - 1
         THEN [e |-> index_underflow(bld), val |-> acc]
         ELSE map_roots(Tail(roots), num_cells, Append(acc, num_cells - Head(roots)), bld)

\* the loop of BagOfCells::parse from the last raw cell to the first; each
\* intermediate result is bound to its value before it is used
RECURSIVE parse_cells(_, _, _)
pushed(rawbag, cs, bld, r) ==
    IF IsOk(r.e) THEN parse_cells(rawbag, Append(cs, r.c), bld)
    ELSE [e |-> r.e, cells |-> cs]

parse_cells(rawbag, cs, bld) ==
    IF Len(cs) = Len(rawbag.cells) THEN [e |-> Ok, cells |-> cs]
    ELSE CHOOSE x \in {pushed(rawbag, cs, bld, r)
                         : r \in {parse_cell(rawbag, Len(rawbag.cells) - 1 - Len(cs), cs, bld)}} : TRUE

rooted(cs, r) ==
    IF IsOk(r.e) THEN [e |-> Ok, cells |-> cs, roots |-> r.val]
    ELSE [e |-> r.e, cells |-> <<>>, roots |-> <<>>]

looped(rawbag, loop, bld) ==
    IF IsOk(loop.e)
    THEN CHOOSE x \in {rooted(loop.cells, r)
                         : r \in {map_roots(rawbag.roots, Len(rawbag.cells), <<>>, bld)}} : TRUE
    ELSE [e |-> loop.e, cells |-> <<>>, roots |-> <<>>]

from_raw(r, bld) ==
    IF IsOk(r.e)
    THEN CHOOSE x \in {looped(r.val, loop, bld) : loop \in {parse_cells(r.val, <<>>, bld)}} : TRUE
    ELSE [e |-> r.e, cells |-> <<>>, roots |-> <<>>]

\* BagOfCells::parse: the error, or the cells and the roots of the bag
BagOfCells_parse(s, bld) ==
    CHOOSE x \in {from_raw(r, bld) : r \in {RawBagOfCells_parse(s)}} : TRUE

(* ---------------------------- get_repr ------------------------------- *)

RECURSIVE cell_hash(_, _, _)
get_repr(cs, c, bld) ==
    LET data_len == Len(c.data)
        rest_bits == c.bit_len % 8
        full_bytes == rest_bits = 0
        lm == get_level_mask(cs, c)
        d1 == get_refs_descriptor(c, IF c.proof THEN 0 ELSE lm.val)
        d2 == get_bits_descriptor(c, bld)
        last_byte == c.data[data_len]
        l == BitOr(last_byte, Pow2(8 - rest_bits - 1))
        padded == IF ~full_bytes THEN Append(SubSeq(c.data, 1, data_len - 1), l) ELSE c.data
        RECURSIVE depths(_)
        depths(k) == IF k > Len(c.references) THEN <<>>
                     ELSE LET md == get_max_depth(cs, cs[c.references[k]])
                          IN  <<(md \div 256) % 256, md % 256>> \o depths(k + 1)
        RECURSIVE hashesOf(_, _)
        hashesOf(k, acc) ==
            IF k > Len(c.references) THEN [e |-> Ok, val |-> acc]
            ELSE LET h == cell_hash(cs, cs[c.references[k]], bld)
                 IN  IF IsOk(h.e) THEN hashesOf(k + 1, acc \o h.val) ELSE h
        hs == hashesOf(1, <<>>)
    IN  IF ~c.proof /\ ~IsOk(lm.e) THEN [e |-> lm.e, val |-> <<>>]
        ELSE IF ~IsOk(d2.e) THEN [e |-> d2.e, val |-> <<>>]
        ELSE IF ~full_bytes /\ data_len = 0
             THEN [e |-> Panic("index out of bounds"), val |-> <<>>]
        ELSE IF ~IsOk(hs.e) THEN hs
        ELSE [e |-> Ok, val |-> <<d1, d2.val>> \o padded \o depths(1) \o hs.val]

cell_hash(cs, c, bld) ==
    LET r == get_repr(cs, c, bld)
    IN  IF IsOk(r.e) THEN [e |-> Ok, val |-> Sha256(r.val)] ELSE r

(* ---------------------- bag_of_cells.rs: to_raw ----------------------- *)

\* the value of the cell behind a handle: Cell derives PartialEq, Eq and Hash,
\* so the hash sets and maps of to_raw identify cells that are equal as values
RECURSIVE Deep(_, _)
Deep(cs, k) ==
    [cs[k] EXCEPT !.references = [j \in 1..Len(cs[k].references) |->
                                     Deep(cs, cs[k].references[j])]]

\* one handle for each cell value
canon(cs, k) == CHOOSE j \in 1..Len(cs) :
                   /\ Deep(cs, j) = Deep(cs, k)
                   /\ \A i \in 1..(j - 1) : Deep(cs, i) # Deep(cs, k)

children(cs, k) == {canon(cs, cs[k].references[j]) : j \in 1..Len(cs[k].references)}

\* traverse_cell_tree: the cells reachable from k
RECURSIVE traverse_cell_tree(_, _)
traverse_cell_tree(cs, k) ==
    {canon(cs, k)} \cup UNION {traverse_cell_tree(cs, j) : j \in children(cs, k)}

\* the emission loop of to_raw: every order in which the unordered set
\* no_in_refs can yield its cells; in_refs is the set of (child, parent) pairs
RECURSIVE orderings(_, _, _, _)
orderings(cs, no_in_refs, in_refs, ordered_cells) ==
    IF no_in_refs = {} THEN {[ordered |-> ordered_cells, in_refs |-> in_refs]}
    ELSE UNION {LET left == {p \in in_refs : p[2] # cell}
                    freed == {ch \in children(cs, cell) :
                                 /\ \E p \in in_refs : p[1] = ch
                                 /\ ~\E p \in left : p[1] = ch}
                IN  orderings(cs, (no_in_refs \cup freed) \ {cell}, left,
                              Append(ordered_cells, cell))
                : cell \in no_in_refs}

\* indices that count from the end of the order
index_from_end(seq, x) == Len(seq) - (CHOOSE i \in 1..Len(seq) : seq[i] = x)

\* indices.insert(cell, indices.len()): the place of the cell in the order
index_of(seq, x) == (CHOOSE i \in 1..Len(seq) : seq[i] = x) - 1

\* every RawBagOfCells that to_raw can return for the bag (cs, roots)
to_raw(cs, roots) ==
    LET all_cells == UNION {traverse_cell_tree(cs, roots[i]) : i \in 1..Len(roots)}
        in_refs == {p \in all_cells \X all_cells : p[1] \in children(cs, p[2])}
        no_in_refs == {c \in all_cells : ~\E p \in in_refs : p[1] = c}
        raw_of(ord, k) ==
            LET lm == get_level_mask(cs, cs[k])
            IN  [e |-> lm.e,
                 val |-> [data |-> cs[k].data, bit_len |-> cs[k].bit_len,
                          references |-> [j \in 1..Len(cs[k].references) |->
                                             index_of(ord, canon(cs, cs[k].references[j]))],
                          max_level |-> lm.val, cell_type |-> cs[k].cell_type,
                          is_exotic |-> cs[k].is_exotic, has_hashes |-> cs[k].has_hashes]]
        bag_of(o) ==
            LET ord == o.ordered
                bad == {i \in 1..Len(ord) : ~IsOk(raw_of(ord, ord[i]).e)}
            IN  IF o.in_refs # {}
                THEN [e |-> CellBuilderError("Can't construct topological ordering: cycle detected"),
                      val |-> NoRawBag]
                ELSE IF bad # {}
                     THEN [e |-> raw_of(ord, ord[CHOOSE i \in bad : \A j \in bad : i <= j]).e,
                           val |-> NoRawBag]
                ELSE [e |-> Ok,
                      val |-> [cells |-> [i \in 1..Len(ord) |-> raw_of(ord, ord[i]).val],
                               roots |-> [i \in 1..Len(roots) |->
                                             index_of(ord, canon(cs, roots[i]))]]]
    IN  {bag_of(o) : o \in orderings(cs, no_in_refs, in_refs, <<>>)}

(* -------------------------- raw.rs: serialize ------------------------- *)

\* 32 - leading_zeros(n)
bit_length(n) == IF n = 0 THEN 0 ELSE (CHOOSE b \in 1..31 : Pow2(b - 1) <= n /\ n < Pow2(b))

raw_cell_size(cell, ref_size_bytes) ==
    2 + ((cell.bit_len + 7) \div 8) + Len(cell.references) * ref_size_bytes

write_raw_cell(cell, ref_size_bytes) ==
    LET level == 0
        is_exotic == 0
        num_refs == Len(cell.references)
        d1 == num_refs + is_exotic * 8 + level * 32
        padding_bits == cell.bit_len % 8
        full_bytes == padding_bits = 0
        data == cell.data
        data_len_bytes == (cell.bit_len + 7) \div 8
        d2 == (data_len_bytes * 2 - (IF full_bytes THEN 0 ELSE 1)) % 256
        l == BitOr(data[data_len_bytes], Pow2(8 - padding_bits - 1))
        body == IF ~full_bytes THEN Append(SubSeq(data, 1, data_len_bytes - 1), l) ELSE data
        RECURSIVE refs(_)
        refs(k) == IF k > num_refs THEN <<>>
                   ELSE BE(cell.references[k], ref_size_bytes) \o refs(k + 1)
    IN  IF ~full_bytes /\ data_len_bytes > Len(data)
        THEN [e |-> Panic("range end index out of range"), val |-> <<>>]
        ELSE [e |-> Ok, val |-> <<d1, d2>> \o body \o refs(1)]

RawBagOfCells_serialize(rawbag, has_crc32) ==
    LET root_count == Len(rawbag.roots)
        n == Len(rawbag.cells)
        num_ref_bytes == (bit_length(n) + 7) \div 8
        RECURSIVE total(_)
        total(k) == IF k > n THEN 0
                    ELSE raw_cell_size(rawbag.cells[k], num_ref_bytes) + total(k + 1)
        full_size == total(1)
        num_offset_bytes == (bit_length(full_size) + 7) \div 8
        flags == (IF has_crc32 THEN 64 ELSE 0) + num_ref_bytes
        head == GENERIC_BOC_MAGIC \o <<flags, num_offset_bytes>> \o BE(n, num_ref_bytes)
                \o BE(1, num_ref_bytes) \o BE(0, num_ref_bytes)
                \o BE(full_size, num_offset_bytes) \o BE(0, num_ref_bytes)
        RECURSIVE body(_, _)
        body(k, acc) == IF k > n THEN [e |-> Ok, val |-> acc]
                        ELSE LET w == write_raw_cell(rawbag.cells[k], num_ref_bytes)
                             IN  IF IsOk(w.e) THEN body(k + 1, acc \o w.val) ELSE w
        b == body(1, head)
    IN  IF root_count > 1
        THEN [e |-> BocSerializationError("Single root expected"), val |-> <<>>]
        ELSE IF num_ref_bytes = 0
             THEN [e |-> BocSerializationError("excessive value for bits written"), val |-> <<>>]
        ELSE IF ~IsOk(b.e) THEN b
        ELSE [e |-> Ok, val |-> IF has_crc32 THEN b.val \o crc32c(b.val) ELSE b.val]

\* BagOfCells::serialize: every byte string it can return for the bag
BagOfCells_serialize(cs, roots, has_crc32) ==
    {IF IsOk(r.e) THEN RawBagOfCells_serialize(r.val, has_crc32) ELSE [e |-> r.e, val |-> <<>>]
     : r \in to_raw(cs, roots)}

(* ------------------------------ inputs -------------------------------- *)

\* A cell record as it is laid out for read_cell: d1, d2, the optional hash
\* and depth preamble, the data bytes, one byte per reference index.
Rec(d1, d2, pre, data, refs) == [d1 |-> d1, d2 |-> d2, pre |-> pre, data |-> data, refs |-> refs]

EncodeCell(r) == <<r.d1, r.d2>> \o r.pre \o r.data \o r.refs

RECURSIVE EncodeCells(_)
EncodeCells(rs) == IF rs = <<>> THEN <<>> ELSE EncodeCell(Head(rs)) \o EncodeCells(Tail(rs))

\* The envelope RawBagOfCells::parse reads, with one-byte reference indices
\* and two-byte offsets; flags carries has_idx (128) and has_crc32c (64).
Envelope(rs, roots, flags, tail) ==
    GENERIC_BOC_MAGIC \o <<flags + 1, 2>> \o <<Len(rs), Len(roots), 0>>
    \o BE(Len(EncodeCells(rs)), 2) \o roots \o EncodeCells(rs) \o tail

\* the cell that parse builds from a record without references
LeafCell(r) == finalize(<<>>, new_cell(read_cell(EncodeCell(r), 0, 1).val), "release").c

PrunedData(mask, n, depth) == <<PrunnedBranchCell, mask>> \o [k \in 1..(n * HASH_BYTES) |-> 17]
                              \o [k \in 1..(n * DEPTH_BYTES) |-> IF k % 2 = 1 THEN depth \div 256 ELSE depth % 256]

Leaves ==
    { Rec(0, 0, <<>>, <<>>, <<>>),
      Rec(0, 2, <<>>, <<1>>, <<>>),
      Rec(0, 1, <<>>, <<128>>, <<>>),
      Rec(0, 1, <<>>, <<168>>, <<>>),
      Rec(0, 3, <<>>, <<7, 128>>, <<>>),
      Rec(0, 1, <<>>, <<0>>, <<>>),
      Rec(32, 0, <<>>, <<>>, <<>>),
      Rec(160, 2, <<>>, <<7>>, <<>>),
      Rec(224, 0, <<>>, <<>>, <<>>),
      Rec(16, 2, Zeros(34), <<5>>, <<>>),
      Rec(8, 2, <<>>, <<9>>, <<>>),
      Rec(8, 1, <<>>, <<3>>, <<>>),
      Rec(8, 66, <<>>, <<LibraryCell>> \o Zeros(32), <<>>),
      Rec(104, 66, <<>>, <<LibraryCell>> \o Zeros(32), <<>>),
      Rec(8, 64, <<>>, <<LibraryCell>> \o Zeros(31), <<>>),
      Rec(8, 72, <<>>, PrunedData(1, 1, 1023), <<>>),
      Rec(8, 140, <<>>, PrunedData(5, 2, 3), <<>>),
      Rec(8, 72, <<>>, PrunedData(0, 1, 0), <<>>),
      Rec(8, 72, <<>>, PrunedData(3, 1, 0), <<>>),
      Rec(8, 20, <<>>, PrunedData(1, 0, 0) \o Zeros(8), <<>>),
      Rec(0, 254, <<>>, [k \in 1..127 |-> 1], <<>>),
      Rec(0, 255, <<>>, [k \in 1..128 |-> 1], <<>>) }

\* the leaves that parents are put over
SomeLeaves ==
    { Rec(0, 0, <<>>, <<>>, <<>>),
      Rec(0, 2, <<>>, <<1>>, <<>>),
      Rec(32, 0, <<>>, <<>>, <<>>),
      Rec(8, 1, <<>>, <<3>>, <<>>),
      Rec(8, 72, <<>>, PrunedData(1, 1, 1023), <<>>),
      Rec(104, 66, <<>>, <<LibraryCell>> \o Zeros(32), <<>>) }

\* the data of a Merkle-proof cell over a child: dh and dd are added to the
\* last byte of the stored hash and of the stored depth
ProofData(child, dh, dd) ==
    LET h == IF child.hashes = <<>> THEN Zeros(HASH_BYTES) ELSE child.hashes[1]
        d == IF child.depth = <<>> THEN 0 ELSE child.depth[1]
    IN  <<MerkleProofCell>> \o [h EXCEPT ![HASH_BYTES] = (h[HASH_BYTES] + dh) % 256]
        \o BE(d + dd, 2)

UpdateData(c0, c1, dh0, dh1, dd0, dd1) ==
    LET h(c) == IF c.hashes = <<>> THEN Zeros(HASH_BYTES) ELSE c.hashes[1]
        d(c) == IF c.depth = <<>> THEN 0 ELSE c.depth[1]
        bump(x, by) == [x EXCEPT ![HASH_BYTES] = (x[HASH_BYTES] + by) % 256]
    IN  <<MerkleUpdateCell>> \o bump(h(c0), dh0) \o bump(h(c1), dh1)
        \o BE(d(c0) + dd0, 2) \o BE(d(c1) + dd1, 2)

\* records of a parent over the leaf at index 1, whose cell is lc
Parents(lc) ==
    { Rec(1, 0, <<>>, <<>>, <<1>>),
      Rec(33, 2, <<>>, <<2>>, <<1>>),
      Rec(2, 0, <<>>, <<>>, <<1, 1>>),
      Rec(4, 0, <<>>, <<>>, <<1, 1, 1, 1>>),
      Rec(5, 0, <<>>, <<>>, <<1, 1, 1, 1, 1>>),
      Rec(7, 2, <<>>, <<1>>, <<1, 1, 1, 1, 1, 1, 1>>),
      Rec(1, 0, <<>>, <<>>, <<0>>),
      Rec(1, 0, <<>>, <<>>, <<2>>),
      Rec(2, 0, <<>>, <<>>, <<1, 0>>),
      Rec(2, 0, <<>>, <<>>, <<9, 0>>),
      Rec(9, 66, <<>>, <<LibraryCell>> \o Zeros(32), <<1>>),
      Rec(9, 72, <<>>, PrunedData(1, 1, 0), <<1>>),
      Rec(9, 70, <<>>, ProofData(lc, 0, 0), <<1>>),
      Rec(9, 70, <<>>, ProofData(lc, 1, 0), <<1>>),
      Rec(9, 70, <<>>, ProofData(lc, 0, 1), <<1>>),
      Rec(10, 70, <<>>, ProofData(lc, 0, 0), <<1, 1>>),
      Rec(9, 72, <<>>, ProofData(lc, 0, 0) \o <<0>>, <<1>>),
      Rec(10, 138, <<>>, UpdateData(lc, lc, 0, 0, 0, 0), <<1, 1>>),
      Rec(10, 138, <<>>, UpdateData(lc, lc, 1, 0, 0, 0), <<1, 1>>),
      Rec(10, 138, <<>>, UpdateData(lc, lc, 0, 1, 0, 0), <<1, 1>>),
      Rec(10, 138, <<>>, UpdateData(lc, lc, 0, 0, 1, 0), <<1, 1>>),
      Rec(10, 138, <<>>, UpdateData(lc, lc, 0, 0, 0, 1), <<1, 1>>),
      Rec(9, 138, <<>>, UpdateData(lc, lc, 0, 0, 0, 0), <<1>>) }

\* bags of three cells: chains, a shared leaf, two leaves under a Merkle
\* update, and a cell with a reference to a previous cell above a cell that
\* fails
Triples ==
    LET e == Rec(0, 0, <<>>, <<>>, <<>>)
        b == Rec(0, 2, <<>>, <<1>>, <<>>)
        bad == Rec(8, 1, <<>>, <<3>>, <<>>)
        updates(cb, ce) ==
            { <<Rec(10, 138, <<>>, UpdateData(cb, ce, 0, 0, 0, 0), <<1, 2>>), b, e>>,
              <<Rec(10, 138, <<>>, UpdateData(cb, ce, 0, 1, 0, 0), <<1, 2>>), b, e>> }
    IN  { <<Rec(1, 0, <<>>, <<>>, <<1>>), Rec(1, 0, <<>>, <<>>, <<2>>), e>>,
          <<Rec(2, 0, <<>>, <<>>, <<1, 2>>), Rec(1, 0, <<>>, <<>>, <<2>>), b>>,
          <<Rec(2, 0, <<>>, <<>>, <<1, 2>>), e, e>>,
          <<Rec(2, 2, <<>>, <<9>>, <<1, 2>>), b, e>>,
          <<Rec(1, 0, <<>>, <<>>, <<1>>), Rec(1, 0, <<>>, <<>>, <<1>>), e>>,
          <<Rec(1, 0, <<>>, <<>>, <<1>>), Rec(1, 0, <<>>, <<>>, <<0>>), e>>,
          <<Rec(1, 0, <<>>, <<>>, <<0>>), e, bad>>,
          <<Rec(1, 0, <<>>, <<>>, <<0>>), Rec(1, 0, <<>>, <<>>, <<3>>), e>> }
        \cup updates(LeafCell(b), LeafCell(e))

Inputs ==
    {Envelope(<<l>>, <<0>>, 0, <<>>) : l \in Leaves}
    \cup UNION {{Envelope(<<p, l>>, <<0>>, 0, <<>>) : p \in Parents(LeafCell(l))} : l \in SomeLeaves}
    \cup {Envelope(t, <<0>>, 0, <<>>) : t \in Triples}
    \cup {Envelope(<<Rec(0, 2, <<>>, <<1>>, <<>>), Rec(0, 0, <<>>, <<>>, <<>>)>>, r, 0, <<>>)
          : r \in {<<>>, <<1>>, <<0, 1>>, <<2>>, <<0, 7>>}}
    \cup {Envelope(<<Rec(0, 2, <<>>, <<1>>, <<>>)>>, <<0>>, 64, t)
          : t \in {<<1, 2, 3, 4>>, <<0, 0, 0, 0>>, <<1, 2>>}}
    \cup {Take(Envelope(<<Rec(0, 2, <<>>, <<1>>, <<>>)>>, <<0>>, 0, <<>>), n) : n \in {0, 3, 5, 11, 13}}
    \cup {<<1, 2, 3, 4, 1, 1, 1, 1, 0, 0, 2, 0, 0, 0>>}

Builds == {"debug", "release"}

(* --------------------------- state machine ---------------------------- *)

\* serial : the bytes given to BagOfCells::parse
\* build  : whether the build checks integer overflow (debug) or wraps (release)
\* pc     : "start" before RawBagOfCells::parse, "loop" inside the loop over
\*          the raw cells, "done" once parse has returned or panicked
\* raw    : the RawBagOfCells
\* cells  : the vector of finalized cells, in the order the loop pushes them
\* cur    : the last loop iteration: its index i, the cell handed to finalize
\*          and what the iteration ended with
\* res    : what BagOfCells::parse ended with, and the roots of the bag
\* round  : 1 for the parse of the input, 2 for the parse of its serialization
\* orig   : in round 2, the bag that was serialized
\* hq     : the last cell_hash() call: the cell and the result
\* call   : one call of a reader over cells (its name, its arguments and,
\*          once it has returned, its outcome)
\* walk   : the call stack of Hashmap::load_hashmap and the map it fills
\* chain  : for the bags whose cells form one chain (cell i references cell
\*          i + 1 and the last cell is a leaf): the number of cells and the
\*          number of cells pushed; there `cells` keeps the last cell pushed,
\*          the one cell the next iteration references

NoCur == [i |-> -1, e |-> Ok, before |-> NoCell, finalized |-> FALSE]

NoRes == [e |-> Ok, roots |-> <<>>]

NoBag == [cells |-> <<>>, roots |-> <<>>]

NoHq == [idx |-> 0, e |-> Ok, val |-> <<>>]

NoChain == [len |-> 0, pushed |-> 0]

NoCall == [op |-> "none", done |-> FALSE]

NoWalk == [pc |-> "none"]

Init ==
    /\ serial \in Inputs
    /\ build \in Builds
    /\ pc = "start"
    /\ raw = NoRawBag
    /\ cells = <<>>
    /\ cur = NoCur
    /\ res = NoRes
    /\ round = 1
    /\ orig = NoBag
    /\ hq = NoHq
    /\ chain = NoChain
    /\ call = NoCall
    /\ walk = NoWalk
    /\ steps = 0

\* BagOfCells::parse, up to the loop: RawBagOfCells::parse(serial)?
ParseRaw ==
    /\ pc = "start"
    /\ \E r \in {RawBagOfCells_parse(serial)} :
           /\ raw' = r.val
           /\ pc' = IF IsOk(r.e) THEN "loop" ELSE "done"
           /\ res' = [e |-> r.e, roots |-> <<>>]
    /\ UNCHANGED <<serial, build, cells, cur, round, orig, hq, chain, call, walk, steps>>

\* one iteration of the loop, for i = num_cells - 1 - cells.len()
ParseCell ==
    /\ pc = "loop"
    /\ Len(cells) < Len(raw.cells)
    /\ \E i \in {Len(raw.cells) - 1 - Len(cells)} :
       \E r \in {parse_cell(raw, i, cells, build)} :
           /\ cur' = [i |-> i, e |-> r.e, before |-> r.before, finalized |-> r.finalized]
           /\ cells' = IF IsOk(r.e) THEN Append(cells, r.c) ELSE cells
           /\ pc' = IF IsOk(r.e) THEN "loop" ELSE "done"
           /\ res' = IF IsOk(r.e) THEN res ELSE [e |-> r.e, roots |-> <<>>]
    /\ UNCHANGED <<serial, build, raw, round, orig, hq, chain, call, walk, steps>>

\* after the loop: the roots are looked up and parse returns
ParseRoots ==
    /\ pc = "loop"
    /\ Len(cells) = Len(raw.cells)
    /\ \E r \in {map_roots(raw.roots, Len(raw.cells), <<>>, build)} :
           res' = [e |-> r.e, roots |-> IF IsOk(r.e) THEN r.val ELSE <<>>]
    /\ pc' = "done"
    /\ UNCHANGED <<serial, build, raw, cells, cur, round, orig, hq, chain, call, walk, steps>>

\* cell_hash() on a cell of the returned bag
CellHash ==
    /\ pc = "done"
    /\ IsOk(res.e)
    /\ \E k \in 1..Len(cells) :
          \E h \in {cell_hash(cells, cells[k], build)} :
              hq' = [idx |-> k, e |-> h.e, val |-> h.val]
    /\ UNCHANGED <<serial, build, pc, raw, cells, cur, res, round, orig, chain, call, walk, steps>>

\* boc.serialize(false) on the returned bag, and BagOfCells::parse entered on
\* the bytes; a serialize that fails ends the run
Serialize ==
    /\ pc = "done"
    /\ IsOk(res.e)
    /\ round = 1
    /\ \E out \in BagOfCells_serialize(cells, res.roots, FALSE) :
          /\ orig' = [cells |-> cells, roots |-> res.roots]
          /\ round' = 2
          /\ IF IsOk(out.e)
             THEN /\ serial' = out.val
                  /\ pc' = "start"
                  /\ res' = NoRes
             ELSE /\ serial' = <<>>
                  /\ pc' = "done"
                  /\ res' = [e |-> out.e, roots |-> <<>>]
    /\ raw' = NoRawBag
    /\ cells' = <<>>
    /\ cur' = NoCur
    /\ hq' = NoHq
    /\ UNCHANGED <<build, chain, call, walk, steps>>

Next == ParseRaw \/ ParseCell \/ ParseRoots \/ CellHash \/ Serialize

Spec == Init /\ [][Next]_vars

(* ------------------------- chains of cells ---------------------------- *)

\* The loop of BagOfCells::parse over a bag of chain.len cells in which cell
\* i carries the one reference i + 1 and the last cell is an empty leaf.
\* Iteration i reads only the cell pushed just before it, so `cells` keeps
\* that cell alone, under handle 1.

ChainLens == {1, 3, MaxDepth, MaxDepth + 1, MaxDepth + 2}

ChainLeaf == read_cell(EncodeCell(Rec(0, 0, <<>>, <<>>, <<>>)), 0, 2).val

ChainLink == read_cell(EncodeCell(Rec(1, 0, <<>>, <<>>, <<0, 1>>)), 0, 2).val

InitChain ==
    /\ serial = <<>>
    /\ build \in Builds
    /\ pc = "loop"
    /\ raw = NoRawBag
    /\ cells = <<>>
    /\ cur = NoCur
    /\ res = NoRes
    /\ round = 1
    /\ orig = NoBag
    /\ hq = NoHq
    /\ chain \in [len : ChainLens, pushed : {0}]
    /\ call = NoCall
    /\ walk = NoWalk
    /\ steps = 0

\* one iteration of the loop, for i = num_cells - 1 - chain.pushed
ChainCell ==
    /\ pc = "loop"
    /\ chain.pushed < chain.len
    /\ \E cell \in {[new_cell(IF chain.pushed = 0 THEN ChainLeaf ELSE ChainLink) EXCEPT
                          !.references = IF chain.pushed = 0 THEN <<>> ELSE <<1>>]} :
       \E fin \in {finalize(cells, cell, build)} :
           /\ cur' = [i |-> chain.len - 1 - chain.pushed, e |-> fin.e, before |-> cell,
                     finalized |-> TRUE]
           /\ cells' = IF IsOk(fin.e) THEN <<fin.c>> ELSE cells
           /\ chain' = IF IsOk(fin.e) THEN [chain EXCEPT !.pushed = @ + 1] ELSE chain
           /\ pc' = IF IsOk(fin.e) THEN "loop" ELSE "done"
           /\ res' = IF IsOk(fin.e) THEN res ELSE [e |-> fin.e, roots |-> <<>>]
    /\ UNCHANGED <<serial, build, raw, round, orig, hq, call, walk, steps>>

\* after the loop: the root is cell 0, the cell pushed last
ChainRoots ==
    /\ pc = "loop"
    /\ chain.pushed = chain.len
    /\ res' = [e |-> Ok, roots |-> <<1>>]
    /\ pc' = "done"
    /\ UNCHANGED <<serial, build, raw, cells, cur, round, orig, hq, chain, call, walk, steps>>

NextChain == ChainCell \/ ChainRoots

SpecChain == InitChain /\ [][NextChain]_vars

(* ---------------------------- parser.rs ------------------------------- *)

\* The BitReader of a CellParser runs over the whole data vector of the
\* cell, not over its first bit_len bits: bits is that vector bit by bit and
\* pos the number of bits consumed.  A read past the end of the vector
\* fails; where the cursor stands afterwards depends on the version of the
\* reader underneath, which torn records.

NonEmptyReader(n) == [kind |-> "NonEmptyReader", msg |-> "", bits |-> n]

InvalidAddressType(tp) == [kind |-> "InvalidAddressType", msg |-> "", tp |-> tp]

UnexpectedEof == CellParserError("failed to fill whole buffer")

\* the bits of a buffer, the most significant bit of each byte first
BitsOf(data) == [k \in 1..(8 * Len(data)) |-> Bit(data[((k - 1) \div 8) + 1], 7 - ((k - 1) % 8))]

\* the unsigned number a run of bits spells
RECURSIVE Num(_)
Num(bits) == IF bits = <<>> THEN 0
             ELSE 2 * Num(SubSeq(bits, 1, Len(bits) - 1)) + bits[Len(bits)]

\* the bytes a run of 8 * k bits spells
BytesOf(bits) == [k \in 1..(Len(bits) \div 8) |-> Num(SubSeq(bits, 8 * k - 7, 8 * k))]

\* Cell::parser
parser(c) == [bits |-> BitsOf(c.data), bit_len |-> c.bit_len, pos |-> 0, torn |-> FALSE]

\* remaining_bits, for a cursor that stands at pos
remaining_at(p, pos) == IF p.bit_len > pos THEN p.bit_len - pos ELSE 0

\* every value remaining_bits() can return
remaining_bits(p) == IF p.torn THEN {remaining_at(p, q) : q \in p.pos..Len(p.bits)}
                     ELSE {remaining_at(p, p.pos)}

\* BitRead::read::<T>(n) and read_bytes, for n no wider than T: the next n
\* bits, or an io error
read(p, n) ==
    IF p.pos + n > Len(p.bits)
    THEN [e |-> UnexpectedEof, val |-> <<>>, p |-> [p EXCEPT !.torn = TRUE]]
    ELSE [e |-> Ok, val |-> SubSeq(p.bits, p.pos + 1, p.pos + n), p |-> [p EXCEPT !.pos = @ + n]]

load_bit(p) == LET r == read(p, 1)
               IN  [e |-> r.e, val |-> r.val = <<1>>, p |-> r.p]

\* load_u8(bit_len), for bit_len <= 8
load_u8(p, bit_len) == LET r == read(p, bit_len)
                       IN  [e |-> r.e, val |-> Num(r.val), p |-> r.p]

load_bytes(p, num_bytes) == LET r == read(p, 8 * num_bytes)
                            IN  [e |-> r.e, val |-> BytesOf(r.val), p |-> r.p]

\* load_uint: the high word, then the 32-bit words below it; with bit_len 0
\* it reads a 32-bit word and then indexes words[0 - 1]
load_uint(p, bit_len, bld) ==
    LET high_word_bits == IF bit_len % 32 = 0 THEN 32 ELSE bit_len % 32
        num_words == (bit_len + 31) \div 32
        rest(h) == LET r == read(h.p, 32 * (num_words - 1))
                   IN  [e |-> r.e, val |-> IF IsOk(r.e) THEN Num(h.val \o r.val) ELSE 0, p |-> r.p]
        high(h) == IF ~IsOk(h.e) THEN [e |-> h.e, val |-> 0, p |-> h.p]
                   ELSE IF num_words = 0 THEN [e |-> index_underflow(bld), val |-> 0, p |-> h.p]
                   ELSE rest(h)
    IN  high(read(p, high_word_bits))

\* load_uint_le: as many bits as the low 32 bits of bit_len need; a usize
\* that has wrapped below zero (here a negative number) has bit 31 set
load_uint_le(p, bit_len, bld) ==
    IF bit_len = 0 THEN [e |-> CellParserError("not a UintLe"), val |-> 0, p |-> p]
    ELSE load_uint(p, IF bit_len < 0 THEN 32 ELSE bit_length(bit_len), bld)

\* load_uint_less: load_uint_le(bit_len - 1), the subtraction on usize
load_uint_less(p, bit_len, bld) ==
    IF bit_len = 0 /\ bld = "debug"
    THEN [e |-> Panic("attempt to subtract with overflow"), val |-> 0, p |-> p]
    ELSE load_uint_le(p, bit_len - 1, bld)

\* load_unary_length: the number of 1 bits before the first 0 bit
load_unary_length(p) ==
    LET zeros == {k \in (p.pos + 1)..Len(p.bits) : p.bits[k] = 0}
        first == CHOOSE k \in zeros : \A j \in zeros : k <= j
    IN  IF zeros = {}
        THEN [e |-> UnexpectedEof, val |-> 0, p |-> [p EXCEPT !.torn = TRUE]]
        ELSE [e |-> Ok, val |-> first - p.pos - 1, p |-> [p EXCEPT !.pos = first]]

ensure_empty(p) == {IF n = 0 THEN Ok ELSE NonEmptyReader(n) : n \in remaining_bits(p)}

\* load_label(m): (e, the label bits as a number, their count, the parser)
load_label(p, m, bld) ==
    LET fail(r) == [e |-> r.e, val |-> 0, n |-> 0, p |-> r.p]
        bits_of(n, s) == IF IsOk(s.e) THEN [e |-> Ok, val |-> s.val, n |-> n, p |-> s.p]
                         ELSE fail(s)
        short(u) == IF ~IsOk(u.e) THEN fail(u)
                    ELSE IF u.val > 0 THEN bits_of(u.val, load_uint(u.p, u.val, bld))
                    ELSE [e |-> Ok, val |-> 0, n |-> 0, p |-> u.p]
        long(n) == IF ~IsOk(n.e) THEN fail(n)
                   ELSE bits_of(n.val, load_uint(n.p, n.val, bld))
        run(v, n) == IF ~IsOk(n.e) THEN fail(n)
                     ELSE [e |-> Ok, val |-> IF v = 0 THEN 0 ELSE Pow2(n.val) - 1, n |-> n.val, p |-> n.p]
        same(v) == IF ~IsOk(v.e) THEN fail(v)
                   ELSE run(IF v.val THEN 1 ELSE 0, load_uint_le(v.p, m, bld))
        second(t) == IF ~IsOk(t.e) THEN fail(t)
                     ELSE IF ~t.val THEN long(load_uint_le(t.p, m, bld))
                     ELSE same(load_bit(t.p))
        first(t) == IF ~IsOk(t.e) THEN fail(t)
                    ELSE IF ~t.val THEN short(load_unary_length(t.p))
                    ELSE second(load_bit(t.p))
    IN  first(load_bit(p))

\* TonAddress::null()
null_address == [workchain |-> 0, hash_part |-> Zeros(32)]

\* load_address: the workchain byte is read as a u8 and cast with `as i32`
load_address(p) ==
    LET fail(r) == [e |-> r.e, val |-> null_address, p |-> r.p]
        hashed(wc, h) == IF ~IsOk(h.e) THEN fail(h)
                         ELSE [e |-> Ok,
                               val |-> [workchain |-> Num(wc), hash_part |-> BytesOf(h.val)],
                               p |-> h.p]
        chained(wc) == IF ~IsOk(wc.e) THEN fail(wc) ELSE hashed(wc.val, read(wc.p, 256))
        reserved(r) == IF ~IsOk(r.e) THEN fail(r) ELSE chained(read(r.p, 8))
        tagged(tp) == IF ~IsOk(tp.e) THEN fail(tp)
                      ELSE IF Num(tp.val) = 0 THEN [e |-> Ok, val |-> null_address, p |-> tp.p]
                      ELSE IF Num(tp.val) = 2 THEN reserved(read(tp.p, 1))
                      ELSE [e |-> InvalidAddressType(Num(tp.val)), val |-> null_address, p |-> tp.p]
    IN  tagged(read(p, 2))

\* a run of reads whose values are dropped: (e, the parser)
RECURSIVE skip_fields(_, _)
skip_fields(p, widths) ==
    IF widths = <<>> THEN [e |-> Ok, p |-> p]
    ELSE LET r == read(p, Head(widths))
         IN  IF IsOk(r.e) THEN skip_fields(r.p, Tail(widths)) ELSE [e |-> r.e, p |-> r.p]

load_shard_ident(p, bld) ==
    LET pfx(l) == IF ~IsOk(l.e) THEN [e |-> l.e, p |-> l.p]
                  ELSE skip_fields(l.p, <<32, 64>>)
        ident(i) == IF ~IsOk(i.e) THEN [e |-> i.e, p |-> i.p]
                    ELSE IF i.val # 0 THEN [e |-> CellParserError("not a ShardIdent"), p |-> i.p]
                    ELSE pfx(load_uint_le(i.p, 60, bld))
    IN  ident(load_uint(p, 2, bld))

load_global_version(p) ==
    LET code(c) == IF ~IsOk(c.e) THEN [e |-> c.e, p |-> c.p]
                   ELSE IF Num(c.val) # 196 THEN [e |-> CellParserError("not a GlobalVersion"), p |-> c.p]
                   ELSE skip_fields(c.p, <<32, 64>>)
    IN  code(read(p, 8))

load_sig_pub_key(p) ==
    LET magic(m) == IF ~IsOk(m.e) THEN [e |-> m.e, val |-> <<>>, p |-> m.p]
                    ELSE IF BytesOf(m.val) # <<142, 129, 39, 138>>
                         THEN [e |-> CellParserError("Not a SigPubKey"), val |-> <<>>, p |-> m.p]
                    ELSE load_bytes(m.p, 32)
    IN  magic(read(p, 32))

(* ----------------------- cell.rs: TL-B readers ------------------------ *)

\* Option<T>
None == [some |-> FALSE]

Some(v) == [some |-> TRUE, val |-> v]

\* Cell::parse_fully: the parser runs, then ensure_empty()? is evaluated
\* before the parser's own result is looked at
parse_fully(c, parse(_)) ==
    LET after(got) == {IF IsOk(empty) THEN [e |-> got.e, val |-> got.val]
                       ELSE [e |-> empty, val |-> got.val] : empty \in ensure_empty(got.p)}
    IN  after(parse(parser(c)))

\* Cell::load_ref_if_exist with Some(parse): (e, Option of the parsed value,
\* Option of the pruned cell, ref_index)
load_ref_if_exist(cs, c, ref_index, parse(_, _, _)) ==
    LET parsed(got) == IF IsOk(got.e)
                       THEN [e |-> Ok, val |-> Some(got.val), cell |-> None, ref_index |-> ref_index + 1]
                       ELSE [e |-> got.e, val |-> None, cell |-> None, ref_index |-> ref_index + 1]
        found(r) == IF ~IsOk(r.e)
                    THEN [e |-> r.e, val |-> None, cell |-> None, ref_index |-> ref_index]
                    ELSE IF cs[r.val].cell_type # PrunnedBranchCell
                    THEN parsed(parse(cs[r.val], 0, parser(cs[r.val])))
                    ELSE [e |-> Ok, val |-> None, cell |-> Some(r.val), ref_index |-> ref_index + 1]
    IN  found(reference(c, ref_index))

\* Cell::load_ref_if_exist_without_self with Some(parse)
load_ref_if_exist_without_self(cs, c, ref_index, parse(_)) ==
    load_ref_if_exist(cs, c, ref_index, LAMBDA rc, ri, rp : parse(rp))

\* u32 and u64 fields are kept as their big-endian bytes
load_ext_blk_ref(p) ==
    LET fh(end_lt, seqno, rh, r) ==
            [e |-> r.e, p |-> r.p,
             val |-> [end_lt |-> end_lt, seqno |-> seqno, root_hash |-> rh, file_hash |-> r.val]]
        rh(end_lt, seqno, r) == IF ~IsOk(r.e) THEN fh(end_lt, seqno, <<>>, r)
                                ELSE fh(end_lt, seqno, r.val, load_bytes(r.p, 32))
        sq(end_lt, r) == IF ~IsOk(r.e) THEN fh(end_lt, <<>>, <<>>, r)
                         ELSE rh(end_lt, r.val, load_bytes(r.p, 32))
        lt(r) == IF ~IsOk(r.e) THEN fh(<<>>, <<>>, <<>>, r) ELSE sq(r.val, load_bytes(r.p, 4))
    IN  lt(load_bytes(p, 8))

load_blk_master_info(p) == load_ext_blk_ref(p)

DefaultBlkPrevRef == [first_prev |-> None, second_prev |-> None]

load_blk_prev_info(cs, c, ref_index, p, n) ==
    LET inline(r) == [e |-> r.e,
                      val |-> IF IsOk(r.e) THEN [first_prev |-> Some(r.val), second_prev |-> None]
                              ELSE DefaultBlkPrevRef]
        second(f, s) == [e |-> s.e,
                         val |-> IF IsOk(s.e) THEN [first_prev |-> f.val, second_prev |-> s.val]
                                 ELSE DefaultBlkPrevRef]
        first(f) == IF ~IsOk(f.e) THEN [e |-> f.e, val |-> DefaultBlkPrevRef]
                    ELSE second(f, load_ref_if_exist_without_self(cs, c, f.ref_index, load_ext_blk_ref))
    IN  IF ~n THEN inline(load_ext_blk_ref(p))
        ELSE first(load_ref_if_exist_without_self(cs, c, ref_index, load_ext_blk_ref))

\* BlockInfo::default()
DefaultBlockInfo == [gen_utime |-> 0, prev_ref |-> DefaultBlkPrevRef]

\* seq_no - 1 on a u32: only a debug build checks the subtraction
prev_seq_no(seq_no, bld) ==
    IF seq_no = Zeros(32) /\ bld = "debug" THEN Panic("attempt to subtract with overflow") ELSE Ok

\* Cell::load_block_info.  gen_utime is read into a local that is never
\* stored: the BlockInfo returned is the default one with prev_ref set.
load_block_info(cs, cell, ref_index, p, bld) ==
    LET fail(e) == [e |-> e, val |-> DefaultBlockInfo]
        vert(info, v) == IF IsOk(v.e) THEN [e |-> Ok, val |-> info] ELSE fail(v.e)
        prev(fl, r) ==
            IF ~IsOk(r.e) THEN fail(r.e)
            ELSE IF fl[8] = 1
            THEN vert([DefaultBlockInfo EXCEPT !.prev_ref = IF r.val.some THEN r.val.val
                                                           ELSE DefaultBlkPrevRef],
                      load_ref_if_exist(cs, cell, r.ref_index,
                          LAMBDA c, i, q : load_blk_prev_info(cs, c, i, q, FALSE)))
            ELSE [e |-> Ok,
                  val |-> [DefaultBlockInfo EXCEPT !.prev_ref = IF r.val.some THEN r.val.val
                                                                ELSE DefaultBlkPrevRef]]
        refs(fl, ri) ==
            prev(fl, load_ref_if_exist(cs, cell, ri,
                         LAMBDA c, i, q : load_blk_prev_info(cs, c, i, q, fl[2] = 1)))
        master(fl, m) == IF IsOk(m.e) THEN refs(fl, m.ref_index) ELSE fail(m.e)
        version(fl, g) ==
            IF ~IsOk(g.e) THEN fail(g.e)
            ELSE IF fl[1] = 1
            THEN master(fl, load_ref_if_exist_without_self(cs, cell, ref_index, load_blk_master_info))
            ELSE refs(fl, ref_index)
        tail(fl, flags, t) ==
            IF ~IsOk(t.e) THEN fail(t.e)
            ELSE IF flags % 2 = 1 THEN version(fl, load_global_version(t.p))
            ELSE version(fl, [e |-> Ok, p |-> t.p])
        shard(fl, flags, s) ==
            IF ~IsOk(s.e) THEN fail(s.e)
            ELSE tail(fl, flags, skip_fields(s.p, <<32, 64, 64, 32, 32, 32, 32>>))
        vsq(fl, flags, seq_no, v) ==
            IF ~IsOk(v.e) THEN fail(v.e)
            ELSE IF fl[8] = 1 /\ v.val = Zeros(32)
            THEN fail(CellParserError("data.vert_seqno_incr > data.vert_seq_no"))
            ELSE IF ~IsOk(prev_seq_no(seq_no, bld)) THEN fail(prev_seq_no(seq_no, bld))
            ELSE shard(fl, flags, load_shard_ident(v.p, bld))
        sq(fl, flags, s) == IF ~IsOk(s.e) THEN fail(s.e) ELSE vsq(fl, flags, s.val, read(s.p, 32))
        flagged(fl, f) ==
            IF ~IsOk(f.e) THEN fail(f.e)
            ELSE IF Num(f.val) > 1 THEN fail(CellParserError("data.flags > 1"))
            ELSE sq(fl, Num(f.val), read(f.p, 32))
        bools(b) == IF ~IsOk(b.e) THEN fail(b.e) ELSE flagged(b.val, read(b.p, 8))
        versioned(v) == IF ~IsOk(v.e) THEN fail(v.e) ELSE bools(read(v.p, 8))
        magic(m) == IF ~IsOk(m.e) THEN fail(m.e)
                    ELSE IF BytesOf(m.val) # <<155, 199, 169, 135>>
                    THEN fail(CellParserError("Not a BlockInfo"))
                    ELSE versioned(read(m.p, 32))
    IN  magic(read(p, 32))

\* Cell::load_value_flow: any 32 bits do
load_value_flow(cs, cell, ref_index, p) ==
    [e |-> read(p, 32).e, val |-> <<>>]

\* Cell::load_merkle_update
load_merkle_update(cs, cell, ref_index, p) ==
    LET new(n) == [e |-> n.e, val |-> <<>>]
        old(o) == IF IsOk(o.e) THEN new(reference(cell, ref_index + 1)) ELSE [e |-> o.e, val |-> <<>>]
        hashes(h) == IF IsOk(h.e) THEN old(reference(cell, ref_index)) ELSE [e |-> h.e, val |-> <<>>]
        magic(m) == IF ~IsOk(m.e) THEN [e |-> m.e, val |-> <<>>]
                    ELSE IF Num(m.val) # 4 THEN [e |-> CellParserError("not a Merkle Update"), val |-> <<>>]
                    ELSE hashes(read(m.p, 512))
    IN  magic(read(p, 8))

\* Cell::load_maybe_ref with Some(parse); has_f2 tells whether a reader for
\* a pruned branch is given.  (e, Option of the value, Option of the pruned
\* cell, ref_index, the parser)
load_maybe_ref(cs, c, ref_index, p, parse(_, _, _), has_f2, f2(_, _, _)) ==
    LET ret(e, val, cell, ri, q) == [e |-> e, val |-> val, cell |-> cell, ref_index |-> ri, p |-> q]
        parsed(q, got) == IF IsOk(got.e) THEN ret(Ok, Some(got.val), None, ref_index + 1, q)
                          ELSE ret(got.e, None, None, ref_index + 1, q)
        found(q, r) ==
            IF ~IsOk(r.e) THEN ret(r.e, None, None, ref_index, q)
            ELSE IF cs[r.val].cell_type # PrunnedBranchCell
            THEN parsed(q, parse(cs[r.val], 0, parser(cs[r.val])))
            ELSE IF has_f2 THEN parsed(q, f2(cs[r.val], 0, parser(cs[r.val])))
            ELSE ret(Ok, None, Some(r.val), ref_index + 1, q)
        exist(b) == IF ~IsOk(b.e) THEN ret(b.e, None, None, ref_index, b.p)
                    ELSE IF ~b.val THEN ret(Ok, None, None, ref_index, b.p)
                    ELSE found(b.p, reference(c, ref_index))
    IN  exist(load_bit(p))

\* McBlockExtra::default(), as far as the readers below fill it
DefaultMcBlockExtra == [shards |-> <<>>, config |-> <<>>]

\* BlockExtra::default()
DefaultBlockExtra == [account_blocks |-> None, custom |-> DefaultMcBlockExtra]

\* Cell::load_in_msg_descr and Cell::load_out_msg_descr
load_msg_descr(p) == [e |-> Ok, val |-> <<>>, p |-> p]

\* Cell::load_block_extra.  The readers of the two sub-structures are not
\* unfolded: sub.accounts is what load_shard_account_blocks returns when it
\* is called and sub.custom what load_mc_block_extra returns.
load_block_extra(cs, cell, ref_index, p, sub) ==
    LET fail(e) == [e |-> e, val |-> DefaultBlockExtra]
        custom(ab, m) ==
            IF ~IsOk(m.e) THEN fail(m.e)
            ELSE [e |-> Ok,
                  val |-> [account_blocks |-> ab,
                           custom |-> IF m.val.some THEN m.val.val ELSE DefaultMcBlockExtra]]
        seeds(ab, ri, s) ==
            IF ~IsOk(s.e) THEN fail(s.e)
            ELSE custom(ab, load_maybe_ref(cs, cell, ri, s.p, LAMBDA c, i, q : sub.custom,
                                           FALSE, LAMBDA c, i, q : sub.custom))
        accounts(q, a) == IF ~IsOk(a.e) THEN fail(a.e)
                          ELSE seeds(a.val, a.ref_index, read(q, 8 * 64))
        out_msg(q, o) == IF ~IsOk(o.e) THEN fail(o.e)
                         ELSE accounts(q, load_ref_if_exist(cs, cell, o.ref_index,
                                                            LAMBDA c, i, r : sub.accounts))
        in_msg(q, i) == IF ~IsOk(i.e) THEN fail(i.e)
                        ELSE out_msg(q, load_ref_if_exist_without_self(cs, cell, i.ref_index,
                                                                       load_msg_descr))
        magic(m) == IF ~IsOk(m.e) THEN fail(m.e)
                    ELSE IF BytesOf(m.val) # <<74, 51, 246, 253>>
                    THEN fail(CellParserError("not a BlockExtra"))
                    ELSE in_msg(m.p, load_ref_if_exist_without_self(cs, cell, ref_index,
                                                                    load_msg_descr))
    IN  magic(read(p, 32))

\* Result::unwrap
unwrap(r) == IF IsErr(r.e) THEN [r EXCEPT !.e = Panic("called Result::unwrap() on an Err value")]
             ELSE r

\* Cell::load_block
load_block(cs, c, bld, sub) ==
    LET fail(e) == [e |-> e, val |-> [info |-> None, extra |-> None]]
        extra(info, x) == IF ~IsOk(x.e) THEN fail(x.e)
                          ELSE [e |-> Ok, val |-> [info |-> info, extra |-> x.val]]
        update(info, u) ==
            IF ~IsOk(u.e) THEN fail(u.e)
            ELSE extra(info, unwrap(load_ref_if_exist(cs, c, u.ref_index,
                           LAMBDA rc, ri, rp : load_block_extra(cs, rc, ri, rp, sub))))
        flow(info, f) ==
            IF ~IsOk(f.e) THEN fail(f.e)
            ELSE update(info, unwrap(load_ref_if_exist(cs, c, f.ref_index,
                            LAMBDA rc, ri, rp : load_merkle_update(cs, rc, ri, rp))))
        block_info(b) ==
            IF ~IsOk(b.e) THEN fail(b.e)
            ELSE flow(b.val, unwrap(load_ref_if_exist(cs, c, b.ref_index,
                          LAMBDA rc, ri, rp : load_value_flow(cs, rc, ri, rp))))
    IN  block_info(unwrap(load_ref_if_exist(cs, c, 0,
                       LAMBDA rc, ri, rp : load_block_info(cs, rc, ri, rp, bld))))

(* ----------------------------- hashmap.rs ----------------------------- *)

Digits == <<"0", "1", "2", "3", "4", "5", "6", "7", "8", "9", "a", "b", "c", "d", "e", "f">>

\* BigUint::to_str_radix and to_string: the digits, without leading zeros
RECURSIVE to_str_radix(_, _)
to_str_radix(v, radix) ==
    IF v < radix THEN <<Digits[v + 1]>>
    ELSE Append(to_str_radix(v \div radix, radix), Digits[(v % radix) + 1])

to_string(v) == to_str_radix(v, 10)

\* key << k
Shl(key, k) == IF key = 0 THEN 0 ELSE key * Pow2(k)

\* HashMap::insert
insert(map, k, v) == [x \in DOMAIN map \cup {k} |-> IF x = k THEN v ELSE map[x]]

\* Hashmap::new: the map, the pruned prefixes and, for the properties, the
\* keys the leaf function f has been called with
NewHashmap == [map |-> <<>>, pruned |-> <<>>, leaves |-> <<>>]

\* n - k on usize
usize_sub(n, k, bld) ==
    IF k > n /\ n >= 0 /\ bld = "debug"
    THEN [e |-> Panic("attempt to subtract with overflow"), val |-> 0]
    ELSE [e |-> Ok, val |-> n - k]

RECURSIVE load_hashmap(_, _, _, _, _, _, _, _, _, _)

\* Hashmap::deserialize
deserialize(cs, cell, ref_index, p, n, f, hm, bld) ==
    load_hashmap(cs, cell, ref_index, p, n, 0, FALSE, f, hm, bld)

\* Hashmap::deserialize_e: a maybe bit, then the root in a reference; a
\* pruned root leaves the map as it is
deserialize_e(cs, cell, ref_index, p, n, f, hm, bld) ==
    LET done(r) == [e |-> r.e, val |-> IF r.val.some THEN r.val.val ELSE hm,
                    ref_index |-> r.ref_index, p |-> r.p]
    IN  done(load_maybe_ref(cs, cell, ref_index, p,
                            LAMBDA c, ri, q : load_hashmap(cs, c, ri, q, n, 0, FALSE, f, hm, bld),
                            TRUE, LAMBDA c, ri, q : [e |-> Ok, val |-> hm]))

\* Cell::load_hash_map
load_hash_map(cs, cell, ref_index, p, n, f, bld) ==
    LET done(r) == [e |-> r.e, val |-> r.val.map, ref_index |-> r.ref_index, p |-> r.p]
    IN  done(deserialize(cs, cell, ref_index, p, n, f, NewHashmap, bld))

\* Cell::load_hash_map_e
load_hash_map_e(cs, cell, ref_index, p, n, f, bld) ==
    LET done(r) == [e |-> r.e, val |-> r.val.map, ref_index |-> r.ref_index, p |-> r.p]
    IN  done(deserialize_e(cs, cell, ref_index, p, n, f, NewHashmap, bld))

\* Cell::load_validator_descr
load_validator_descr(p) ==
    LET ret(e, v, q) == [e |-> e, val |-> v, p |-> q]
        adnl(t, k, w, r) ==
            ret(r.e, Some([type |-> t, public_key |-> k, weight |-> w, adnl_addr |-> r.val]), r.p)
        weight(t, k, r) == IF ~IsOk(r.e) THEN ret(r.e, None, r.p)
                           ELSE IF t # 83 THEN adnl(t, k, r.val, load_bytes(r.p, 32))
                           ELSE ret(Ok, Some([type |-> t, public_key |-> k, weight |-> r.val,
                                              adnl_addr |-> <<>>]), r.p)
        key(t, r) == IF ~IsOk(r.e) THEN ret(r.e, None, r.p) ELSE weight(t, r.val, load_bytes(r.p, 8))
        type(r) == IF ~IsOk(r.e) THEN ret(r.e, None, r.p)
                   ELSE key(Num(r.val), load_sig_pub_key(r.p))
    IN  type(read(p, 8))

\* Validators::default(); u32 and u64 fields are kept as their bytes
DefaultValidators ==
    [type |-> "", utime_since |-> Zeros(4), utime_until |-> Zeros(4), total |-> 0, main |-> 0,
     total_weight |-> Zeros(8), list |-> <<>>]

\* Cell::load_validator_set
load_validator_set(cs, cell, ref_index, p, bld) ==
    LET ret(e, v) == [e |-> e, val |-> v]
        listed(v, r) == ret(r.e, IF IsOk(r.e) THEN [v EXCEPT !.list = r.val] ELSE v)
        weighed(v, r) ==
            IF ~IsOk(r.e) THEN ret(r.e, v)
            ELSE listed([v EXCEPT !.total_weight = r.val],
                        load_hash_map_e(cs, cell, ref_index, r.p, 16, "load_validator_descr", bld))
        counted(v, q) ==
            IF v.total < v.main THEN ret(CellParserError("data.total < data.main"), v)
            ELSE IF v.main < 1 THEN ret(CellParserError("data.main < 1"), v)
            ELSE IF v.type = ""
                 THEN listed(v, load_hash_map(cs, cell, ref_index, q, 16, "load_validator_descr", bld))
            ELSE weighed(v, load_bytes(q, 8))
        main(v, r) == IF ~IsOk(r.e) THEN ret(r.e, v) ELSE counted([v EXCEPT !.main = r.val], r.p)
        total(v, r) == IF ~IsOk(r.e) THEN ret(r.e, v)
                       ELSE main([v EXCEPT !.total = r.val], load_uint(r.p, 16, bld))
        until(v, r) == IF ~IsOk(r.e) THEN ret(r.e, v)
                       ELSE total([v EXCEPT !.utime_until = r.val], load_uint(r.p, 16, bld))
        since(v, r) == IF ~IsOk(r.e) THEN ret(r.e, v)
                       ELSE until([v EXCEPT !.utime_since = r.val], load_bytes(r.p, 4))
        type(r) == IF ~IsOk(r.e) THEN ret(r.e, DefaultValidators)
                   ELSE IF Num(r.val) = 17
                        THEN since([DefaultValidators EXCEPT !.type = ""], load_bytes(r.p, 4))
                   ELSE IF Num(r.val) = 18
                        THEN since([DefaultValidators EXCEPT !.type = "ext"], load_bytes(r.p, 4))
                   ELSE ret(Ok, DefaultValidators)
    IN  type(read(p, 8))

\* Cell::load_config_param_32, _34 and _36
load_config_param_nn(number, cs, cell, ref_index, p, bld) ==
    LET done(r) == [e |-> r.e, val |-> [number |-> number, validators |-> r.val]]
    IN  done(load_validator_set(cs, cell, ref_index, p, bld))

\* a load_config_param that decodes parameter 32 alone
load_config_param_32_alone(cs, cell, ref_index, p, n, bld) ==
    LET variant(r) == [e |-> r.e, val |-> Some([variant |-> "ConfigParams32", param |-> r.val])]
    IN  IF n = 32 THEN variant(load_config_param_nn(32, cs, cell, ref_index, p, bld))
        ELSE [e |-> Ok, val |-> None]

\* Cell::load_config_param: Option<ConfigParam> for parameter n; the arms
\* "32", "34" and "36" of its match call load_config_param_32, _34 and _36
load_config_param(cs, cell, ref_index, p, n, bld) ==
    LET n_str == to_string(n)
        variant(name, r) == [e |-> r.e, val |-> Some([variant |-> name, param |-> r.val])]
    IN  IF (\E r \in remaining_bits(p) : r < p.bit_len) \/ ref_index # 0
        THEN [e |-> CellParserError("Invalid config cell"), val |-> None]
        ELSE IF n_str \in {<<"3", "2">>, <<"3", "4">>, <<"3", "6">>}
             THEN variant(IF n_str = <<"3", "2">> THEN "ConfigParams32"
                          ELSE IF n_str = <<"3", "4">> THEN "ConfigParams34"
                          ELSE "ConfigParams36",
                          load_config_param_nn(IF n_str = <<"3", "2">> THEN 32
                                               ELSE IF n_str = <<"3", "4">> THEN 34 ELSE 36,
                                               cs, cell, ref_index, p, bld))
        ELSE [e |-> Ok, val |-> None]

\* the leaf functions handed to Hashmap::new: Cell::load_validator_descr and
\* the closure of load_config_params, which reads the parameter in the
\* leaf's next reference
leaf_fn(f, cs, cell, ref_index, p, key, bld) ==
    LET descr(r) == [e |-> r.e, val |-> r.val, ref_index |-> ref_index, p |-> r.p]
        param(r) == [e |-> r.e, val |-> r.val, ref_index |-> r.ref_index, p |-> p]
    IN  IF f = "load_validator_descr" THEN descr(load_validator_descr(p))
        ELSE param(load_ref_if_exist(cs, cell, ref_index,
                                     LAMBDA c, ri, q : load_config_param(cs, c, ri, q, key, bld)))

\* Hashmap::load_hashmap: (e, the Hashmap, ref_index, the parser, the
\* number of calls nested at the deepest point)
load_hashmap(cs, cell, ref_index, p, n, key, fork, f, hm, bld) ==
    LET ret(e, h, ri, q, d) == [e |-> e, val |-> h, ref_index |-> ri, p |-> q, nested |-> d]
        called == [hm EXCEPT !.leaves = Append(@, key)]
        leaf(r) == IF IsOk(r.e) /\ r.val.some
                   THEN ret(Ok, [called EXCEPT !.map = insert(@, to_str_radix(key, 16), r.val.val)],
                            r.ref_index, r.p, 1)
                   ELSE ret(r.e, called, r.ref_index, r.p, 1)
        right_done(l, r) == ret(r.e, r.val, IF IsOk(r.e) THEN ref_index + 2 ELSE ref_index + 1, p,
                                1 + Max(l.nested, r.nested))
        right(l, ref) ==
            IF ~IsOk(ref.e) THEN ret(ref.e, l.val, ref_index + 1, p, 1 + l.nested)
            ELSE right_done(l, load_hashmap(cs, cs[ref.val], 0, parser(cs[ref.val]), n - 1,
                                            Shl(key, 1) + 1, ~fork, f, l.val, bld))
        left_done(l) == IF ~IsOk(l.e) THEN ret(l.e, l.val, ref_index, p, 1 + l.nested)
                        ELSE right(l, reference(cell, ref_index + 1))
        left(ref) ==
            IF ~IsOk(ref.e) THEN ret(ref.e, hm, ref_index, p, 1)
            ELSE left_done(load_hashmap(cs, cs[ref.val], 0, parser(cs[ref.val]), n - 1,
                                        Shl(key, 1), ~fork, f, hm, bld))
        inner(r) == ret(r.e, r.val, r.ref_index, r.p, 1 + r.nested)
        edge(lab, m) ==
            IF ~IsOk(m.e) THEN ret(m.e, hm, ref_index, lab.p, 1)
            ELSE inner(load_hashmap(cs, cell, ref_index, lab.p, m.val,
                                    Shl(key, lab.n) + lab.val, ~fork, f, hm, bld))
        labelled(lab) ==
            IF ~IsOk(lab.e) THEN ret(lab.e, hm, ref_index, lab.p, 1)
            ELSE IF lab.n > 0 THEN edge(lab, usize_sub(n, lab.n, bld))
            ELSE inner(load_hashmap(cs, cell, ref_index, lab.p, n, key, ~fork, f, hm, bld))
    IN  IF cell.cell_type # OrdinaryCell
        THEN ret(Ok, IF cell.cell_type = PrunnedBranchCell
                     THEN [hm EXCEPT !.pruned = Append(@, to_str_radix(key, 2))] ELSE hm,
                 ref_index, p, 1)
        ELSE IF n = 0 /\ fork THEN leaf(leaf_fn(f, cs, cell, ref_index, p, key, bld))
        ELSE IF fork THEN left(reference(cell, ref_index))
        ELSE labelled(load_label(p, n, bld))

\* Cell::load_config_params
load_config_params(cs, cell, ref_index, p, bld) ==
    LET loaded(r) == IF ~IsOk(r.e) THEN [e |-> r.e, val |-> [config |-> <<>>]]
                     ELSE IF r.val.some THEN [e |-> Ok, val |-> [config |-> r.val.val]]
                     ELSE [e |-> CellParserError("No config params to load"),
                           val |-> [config |-> <<>>]]
        addr(a) == IF ~IsOk(a.e) THEN [e |-> a.e, val |-> [config |-> <<>>]]
                   ELSE loaded(load_ref_if_exist(cs, cell, ref_index,
                                   LAMBDA c, ri, q : load_hash_map(cs, c, ri, q, 32, "config_param", bld)))
    IN  addr(load_bytes(p, 32))

(* ------------------------ inputs of the readers ----------------------- *)

\* v as n bits, the most significant first (v below 2^31)
U(v, n) == [k \in 1..n |-> IF n - k > 30 THEN 0 ELSE Bit(v, n - k)]

\* the data vector holding a run of bits, zero-filled to whole bytes, as
\* read_cell leaves it
Pack(bits) == [k \in 1..((Len(bits) + 7) \div 8) |->
                  Num([j \in 1..8 |-> IF 8 * (k - 1) + j <= Len(bits)
                                      THEN bits[8 * (k - 1) + j] ELSE 0])]

\* a cell as BagOfCells::parse leaves it; hashes and depths are not read by
\* the readers
MkCell(bits, refs, cell_type) ==
    [NoCell EXCEPT !.data = Pack(bits), !.bit_len = Len(bits), !.references = refs,
                   !.cell_type = cell_type, !.is_exotic = cell_type # OrdinaryCell]

\* an ExtBlkRef: end_lt, seqno, root_hash, file_hash
ExtBlkRefBits == U(9, 64) \o U(4, 32) \o BitsOf([k \in 1..32 |-> 170]) \o BitsOf([k \in 1..32 |-> 187])

GenUtimes == {0, 7, 1719688696}

\* the bits of a BlockInfo: fl is the eight flag bits from not_master to
\* vert_seqno_incr, gv whether a GlobalVersion follows
BlockInfoBits(magic, fl, flags, seq_no, vert_seq_no, ident, gen_utime, gv) ==
    BitsOf(magic) \o U(0, 32) \o fl \o U(flags, 8) \o U(seq_no, 32) \o U(vert_seq_no, 32)
    \o U(ident, 2) \o U(0, 6) \o U(0, 32) \o U(0, 64)
    \o U(gen_utime, 32) \o U(0, 64) \o U(0, 64) \o U(0, 32) \o U(0, 32) \o U(0, 32) \o U(0, 32)
    \o (IF gv THEN U(196, 8) \o U(0, 32) \o U(0, 64) ELSE <<>>)

BlockInfoMagic == <<155, 199, 169, 135>>

Flag(k) == [j \in 1..8 |-> IF j = k THEN 1 ELSE 0]

\* BlockInfo cells over the cells 1 (an ExtBlkRef), 2 (two references to
\* cell 1) and 3 (a pruned branch) of the arena
InfoCells ==
    {MkCell(BlockInfoBits(BlockInfoMagic, U(0, 8), 0, 5, 0, 0, t, FALSE), <<1>>, OrdinaryCell)
        : t \in GenUtimes}
    \cup {MkCell(BlockInfoBits(BlockInfoMagic, U(0, 8), f, s, 0, 0, 7, g), <<1>>, OrdinaryCell)
             : f \in {0, 1, 2}, s \in {0, 5}, g \in BOOLEAN}
    \cup {MkCell(BlockInfoBits(BlockInfoMagic, Flag(1), 0, 5, 0, 0, 7, FALSE), r, OrdinaryCell)
             : r \in {<<1, 1>>, <<1>>, <<3, 3>>, <<>>}}
    \cup {MkCell(BlockInfoBits(BlockInfoMagic, Flag(2), 0, 5, 0, 0, 7, FALSE), r, OrdinaryCell)
             : r \in {<<2>>, <<1>>, <<3>>}}
    \cup {MkCell(BlockInfoBits(BlockInfoMagic, Flag(8), 0, 5, v, 0, 7, FALSE), r, OrdinaryCell)
             : v \in {0, 1}, r \in {<<1, 1>>, <<1>>}}
    \cup {MkCell(BlockInfoBits(m, U(0, 8), 0, 5, 0, i, 7, FALSE), <<1>>, OrdinaryCell)
             : m \in {BlockInfoMagic, <<155, 199, 169, 134>>}, i \in {0, 1}}
    \cup {MkCell(Take(BlockInfoBits(BlockInfoMagic, U(0, 8), 0, 5, 0, 0, 7, FALSE), n), <<1>>,
                 OrdinaryCell) : n \in {0, 31, 40, 200, 279, 500}}

PrunedCell == MkCell(BitsOf(PrunedData(1, 1, 0)), <<>>, PrunnedBranchCell)

\* the cells that stand in the ValueFlow slot
FlowCells == {MkCell(BitsOf(<<184, 228, 141, 251>>), <<>>, OrdinaryCell),
              MkCell(U(0, 40), <<>>, OrdinaryCell),
              MkCell(U(0, 8), <<>>, OrdinaryCell),
              PrunedCell}

\* the cells that stand in the state-update slot
UpdateCells == {MkCell(U(m, 8) \o U(0, 512), r, t)
                   : m \in {4, 5}, r \in {<<1, 1>>, <<1>>}, t \in {OrdinaryCell, MerkleUpdateCell}}
               \cup {MkCell(U(4, 8), <<1, 1>>, OrdinaryCell), PrunedCell}

BlockExtraMagic == <<74, 51, 246, 253>>

\* the cells that stand in the BlockExtra slot; the last bit is the maybe
\* bit of the McBlockExtra
ExtraCells == {MkCell(BitsOf(m) \o U(0, 512) \o <<b>>, r, OrdinaryCell)
                  : m \in {BlockExtraMagic, <<74, 51, 246, 252>>}, b \in {0, 1},
                    r \in {<<4, 4, 3, 4>>, <<4, 4, 4, 4>>, <<3, 3, 3>>, <<4, 4, 4>>, <<4, 4>>}}
              \cup {MkCell(BitsOf(BlockExtraMagic) \o U(0, 512), <<4, 4, 3>>, OrdinaryCell),
                    MkCell(BitsOf(BlockExtraMagic), <<4, 4, 3>>, OrdinaryCell),
                    PrunedCell}

\* the cells around a block: 1 an ExtBlkRef, 2 a cell with two references
\* to it, 3 a pruned branch, 4 a cell of one zero byte, 5..8 the cells in
\* the four slots and 9 the block, with the first nrefs of its references
Arena(info, flow, update, extra, nrefs) ==
    <<MkCell(ExtBlkRefBits, <<>>, OrdinaryCell), MkCell(<<>>, <<1, 1>>, OrdinaryCell),
      PrunedCell, MkCell(U(0, 8), <<>>, OrdinaryCell),
      info, flow, update, extra, MkCell(<<>>, Take(<<5, 6, 7, 8>>, nrefs), OrdinaryCell)>>

GoodInfo == MkCell(BlockInfoBits(BlockInfoMagic, U(0, 8), 0, 5, 0, 0, 1719688696, FALSE), <<1>>,
                   OrdinaryCell)

GoodFlow == MkCell(BitsOf(<<184, 228, 141, 251>>), <<>>, OrdinaryCell)

GoodUpdate == MkCell(U(4, 8) \o U(0, 512), <<1, 1>>, MerkleUpdateCell)

GoodExtra == MkCell(BitsOf(BlockExtraMagic) \o U(0, 512) \o <<0>>, <<4, 4, 3>>, OrdinaryCell)

\* what a reader that is not unfolded can return
SubResults == {[e |-> Ok, val |-> <<>>], [e |-> CellParserError("not decoded"), val |-> <<>>],
               [e |-> Panic("index out of bounds"), val |-> <<>>]}

GoodSub == [accounts |-> [e |-> Ok, val |-> <<>>], custom |-> [e |-> Ok, val |-> <<>>]]

NoOut == [e |-> Ok]

BlockCalls ==
    {[op |-> "load_block", cs |-> Arena(i, GoodFlow, GoodUpdate, GoodExtra, 4), at |-> 9,
      sub |-> GoodSub, done |-> FALSE, out |-> NoOut] : i \in InfoCells \cup {PrunedCell}}
    \cup {[op |-> "load_block", cs |-> Arena(GoodInfo, f, u, GoodExtra, 4), at |-> 9,
           sub |-> GoodSub, done |-> FALSE, out |-> NoOut] : f \in FlowCells, u \in UpdateCells}
    \cup {[op |-> "load_block", cs |-> Arena(GoodInfo, GoodFlow, GoodUpdate, x, 4), at |-> 9,
           sub |-> [accounts |-> a, custom |-> c], done |-> FALSE, out |-> NoOut]
             : x \in ExtraCells, a \in SubResults, c \in SubResults}
    \cup {[op |-> "load_block", cs |-> Arena(GoodInfo, GoodFlow, GoodUpdate, GoodExtra, n), at |-> 9,
           sub |-> GoodSub, done |-> FALSE, out |-> NoOut] : n \in 0..3}
    \cup {[op |-> "load_block", cs |-> Arena(PrunedCell, PrunedCell, PrunedCell, PrunedCell, 4),
           at |-> 9, sub |-> GoodSub, done |-> FALSE, out |-> NoOut]}

BlockInfoCalls ==
    {[op |-> "load_block_info", cs |-> Arena(i, GoodFlow, GoodUpdate, GoodExtra, 4), at |-> 5,
      done |-> FALSE, out |-> NoOut] : i \in InfoCells}

\* ----- Hashmap cells

Ones(n) == [k \in 1..n |-> 1]

\* the three forms of an HmLabel for the label bits l of at most m bits
hml_short(l) == <<0>> \o Ones(Len(l)) \o <<0>> \o l

hml_long(l, m) == <<1, 0>> \o U(Len(l), bit_length(m)) \o l

hml_same(l, m) == <<1, 1, IF l = <<>> THEN 0 ELSE l[1]>> \o U(Len(l), bit_length(m))

Uniform(l) == \A k \in 1..Len(l) : l[k] = l[1]

LabelForms == {"shortest", "hml_short", "hml_long", "hml_same"}

\* the label in the wanted form; "shortest" is the form a serializer picks,
\* and a label that is not a run of one bit cannot be an hml_same
Label(l, m, form) ==
    LET k == bit_length(m)
        len == Len(l)
    IN  IF form = "hml_short" THEN hml_short(l)
        ELSE IF form = "hml_long" THEN hml_long(l, m)
        ELSE IF form = "hml_same" /\ Uniform(l) THEN hml_same(l, m)
        ELSE IF len > 1 /\ Uniform(l) /\ k < 2 * len - 1 THEN hml_same(l, m)
        ELSE IF k < len THEN hml_long(l, m)
        ELSE hml_short(l)

\* the longest prefix the bit strings of keys share
CommonPrefix(keys) ==
    LET one == CHOOSE k \in keys : TRUE
        shared(j) == \A k \in keys : SubSeq(k, 1, j) = SubSeq(one, 1, j)
        len == CHOOSE j \in 0..Len(one) : shared(j) /\ (j = Len(one) \/ ~shared(j + 1))
    IN  SubSeq(one, 1, len)

\* a ValidatorDescr of type 0x53 whose public key and weight spell key
ValidatorDescrBits(key) ==
    U(83, 8) \o BitsOf(<<142, 129, 39, 138>>) \o BitsOf([k \in 1..32 |-> key + 1]) \o U(key, 64)

ValidatorDescrOf(key) ==
    [type |-> 83, public_key |-> [k \in 1..32 |-> key + 1], weight |-> BytesOf(U(key, 64)),
     adnl_addr |-> <<>>]

\* the cells of the Hashmap edge that holds the keys whose bits after the
\* first Len(pre) are in keys (each m bits long), the root last, for an
\* arena in which off cells stand before them; a leaf holds leaf_bits[key]
\* and the references leaf_refs[key]
RECURSIVE HashmapCells(_, _, _, _, _, _, _)
HashmapCells(keys, pre, m, off, form, leaf_bits, leaf_refs) ==
    LET l == CommonPrefix(keys)
        below(b) == {Drop(k, Len(l) + 1) : k \in {x \in keys : x[Len(l) + 1] = b}}
        fork(left, right) ==
            left \o right
            \o <<MkCell(Label(l, m, form), <<off + Len(left), off + Len(left) + Len(right)>>,
                        OrdinaryCell)>>
        with_left(left) ==
            fork(left, HashmapCells(below(1), pre \o l \o <<1>>, m - Len(l) - 1, off + Len(left),
                                    form, leaf_bits, leaf_refs))
    IN  IF Len(l) = m
        THEN <<MkCell(Label(l, m, form) \o leaf_bits[Num(pre \o l)], leaf_refs[Num(pre \o l)],
                      OrdinaryCell)>>
        ELSE with_left(HashmapCells(below(0), pre \o l \o <<0>>, m - Len(l) - 1, off, form,
                                    leaf_bits, leaf_refs))

\* key widths and key sets of the Hashmaps of ValidatorDescr
KeySets ==
    {[n |-> n, keys |-> ks] : n \in 0..2, ks \in SUBSET (0..3)} \cup
    {[n |-> 3, keys |-> ks] : ks \in {{0}, {5}, {7}, {0, 1}, {3, 4}, {0, 7}, {2, 3, 6}, 0..7}}

HashmapCalls ==
    {[op |-> "deserialize", n |-> s.n, keys |-> s.keys, form |-> form,
      cs |-> HashmapCells({U(k, s.n) : k \in s.keys}, <<>>, s.n, 0, form,
                          [k \in 0..7 |-> ValidatorDescrBits(k)], [k \in 0..7 |-> <<>>]),
      at |-> 2 * Cardinality(s.keys) - 1, f |-> "load_validator_descr",
      done |-> FALSE, out |-> NoOut]
        : s \in {x \in KeySets : x.keys # {} /\ \A k \in x.keys : k < Pow2(x.n)},
          form \in LabelForms}

\* for each cell of HashmapCells(keys, pre, ...), in the same order, the key
\* bits on the path from the root to the cell: the prefix at which the edge
\* of the cell begins
RECURSIVE EdgePrefixes(_, _)
EdgePrefixes(keys, pre) ==
    LET l == CommonPrefix(keys)
        below(b) == {Drop(k, Len(l) + 1) : k \in {x \in keys : x[Len(l) + 1] = b}}
    IN  IF \A k \in keys : Len(l) = Len(k) THEN <<pre>>
        ELSE EdgePrefixes(below(0), pre \o l \o <<0>>)
             \o EdgePrefixes(below(1), pre \o l \o <<1>>) \o <<pre>>

\* Hashmaps in which the cell below the root that stands at the prefix cut
\* has been replaced by a pruned branch cell
PrunedHashmapCalls ==
    UNION {{[op |-> "deserialize_pruned", n |-> c.n, keys |-> c.keys,
             cut |-> EdgePrefixes({U(k, c.n) : k \in c.keys}, <<>>)[i],
             cs |-> [c.cs EXCEPT ![i] = PrunedCell], at |-> c.at, f |-> c.f,
             done |-> FALSE, out |-> NoOut] : i \in 1..(c.at - 1)}
           : c \in {x \in HashmapCalls : x.form = "shortest"}}

\* a Hashmap node whose label is longer than the key width n, after a leaf
\* that its references, if it has any, lead to; the length field of
\* hml_long and hml_same holds a length of 3 when n is 2
LongLabelCalls ==
    {[op |-> "deserialize_long_label", n |-> x.n, label |-> l, form |-> x.form,
      cs |-> <<MkCell(hml_short(<<>>) \o ValidatorDescrBits(0), <<>>, OrdinaryCell),
               MkCell(IF x.form = "hml_short" THEN hml_short(l)
                      ELSE IF x.form = "hml_long" THEN hml_long(l, x.n) ELSE hml_same(l, x.n),
                      refs, OrdinaryCell)>>,
      at |-> 2, f |-> "load_validator_descr", done |-> FALSE, out |-> NoOut]
        : x \in {[n |-> 0, form |-> "hml_short"], [n |-> 1, form |-> "hml_short"],
                 [n |-> 2, form |-> "hml_short"], [n |-> 2, form |-> "hml_long"],
                 [n |-> 2, form |-> "hml_same"]},
          l \in {<<1, 1, 1>>, <<0, 0, 0>>}, refs \in {<<>>, <<1, 1>>}}

\* ----- ValidatorSet cells

\* the type tags of a ValidatorSet cell: validators, validators_ext and
\* tags that are neither
ValidatorSetTags == {17, 18, 0, 19, 255}

\* a ValidatorSet cell, the last of the cells, and the Hashmap of its
\* list, for an arena in which off cells stand before them: with tag 0x12
\* the list is a HashmapE (a maybe bit and a reference to the root), with
\* any other tag the root edge stands in the cell itself
ValidatorSetCells(tag, total, main, keys, off) ==
    LET head == U(tag, 8) \o U(1719688696, 32) \o U(1719754232, 32) \o U(total, 16) \o U(main, 16)
        ext(hc) == Append(hc, MkCell(head \o U(total, 64) \o <<IF keys = {} THEN 0 ELSE 1>>,
                                     IF keys = {} THEN <<>> ELSE <<off + Len(hc)>>, OrdinaryCell))
        plain(hc, root) ==
            Append(Take(hc, Len(hc) - 1),
                   MkCell(head \o Take(BitsOf(root.data), root.bit_len), root.references,
                          OrdinaryCell))
        made(hc) == IF tag = 18 THEN ext(hc) ELSE plain(hc, hc[Len(hc)])
    IN  IF keys = {} THEN ext(<<>>)
        ELSE made(HashmapCells({U(k, 16) : k \in keys}, <<>>, 16, off, "shortest",
                               [k \in 0..7 |-> ValidatorDescrBits(k)], [k \in 0..7 |-> <<>>]))

ValidatorSetCalls ==
    {[op |-> "load_validator_set", tag |-> tag, total |-> total, main |-> main, keys |-> keys,
      cs |-> ValidatorSetCells(tag, total, main, keys, 0),
      at |-> IF keys = {} THEN 1 ELSE IF tag = 18 THEN 2 * Cardinality(keys)
                                  ELSE 2 * Cardinality(keys) - 1,
      done |-> FALSE, out |-> NoOut]
        : tag \in ValidatorSetTags, total \in {0, 1, 2, 343}, main \in {0, 1, 2, 100},
          keys \in {{0}, {0, 1}, {1, 2, 5}}}
    \cup {[op |-> "load_validator_set", tag |-> 18, total |-> 1, main |-> 1, keys |-> {},
           cs |-> ValidatorSetCells(18, 1, 1, {}, 0), at |-> 1, done |-> FALSE, out |-> NoOut]}

\* ----- ConfigParams cells

\* the parameter cells: 1..3 a ValidatorSet of tag 0x11 with two validators,
\* 4..5 one of tag 0x12 with one, 6 one of tag 0x12 with none, 7 a
\* parameter that is no ValidatorSet, 8 a pruned branch
ParamCells ==
    ValidatorSetCells(17, 2, 1, {0, 1}, 0) \o ValidatorSetCells(18, 1, 1, {0}, 3)
    \o ValidatorSetCells(18, 1, 1, {}, 5) \o <<MkCell(U(7, 8), <<>>, OrdinaryCell), PrunedCell>>

ParamNumbers == {0, 32, 33, 34, 36}

\* the cell of parameter k
ParamCell(k, pruned) == IF k \in pruned THEN 8 ELSE IF k = 32 THEN 3 ELSE IF k = 34 THEN 5
                        ELSE IF k = 36 THEN 6 ELSE 7

\* the ValidatorSets in the cells 3, 5 and 6
ParamValidators(k) ==
    LET set(type, total, weight, list) ==
            [type |-> type, utime_since |-> BytesOf(U(1719688696, 32)),
             utime_until |-> BytesOf(U(1719754232, 32)), total |-> total, main |-> 1,
             total_weight |-> weight, list |-> list]
    IN  IF k = 32 THEN set("", 2, Zeros(8),
                           [x \in {<<"0">>, <<"1">>} |-> ValidatorDescrOf(IF x = <<"0">> THEN 0 ELSE 1)])
        ELSE IF k = 34 THEN set("ext", 1, BytesOf(U(1, 64)), [x \in {<<"0">>} |-> ValidatorDescrOf(0)])
        ELSE set("ext", 1, BytesOf(U(1, 64)), <<>>)

\* a ConfigParams cell, the last of the cells: the config address and a
\* reference to the Hashmap of the parameters nums, those in pruned with a
\* pruned branch for their cell
ConfigParamsCells(nums, pruned, form) ==
    LET config(hc) == Append(hc, MkCell(BitsOf([k \in 1..32 |-> 85]), <<Len(hc)>>, OrdinaryCell))
    IN  config(ParamCells
               \o HashmapCells({U(k, 32) : k \in nums}, <<>>, 32, Len(ParamCells), form,
                               [k \in nums |-> <<>>], [k \in nums |-> <<ParamCell(k, pruned)>>]))

ConfigParamsCalls ==
    {[op |-> "load_config_params", nums |-> nums, pruned |-> pruned,
      cs |-> ConfigParamsCells(nums, pruned, form), at |-> Len(ParamCells) + 2 * Cardinality(nums),
      done |-> FALSE, out |-> NoOut]
        : nums \in (SUBSET ParamNumbers) \ {{}}, pruned \in {{}, {0}, {34}, {33, 36}},
          form \in {"shortest", "hml_short"}}
    \cup {[op |-> "load_config_params", nums |-> {}, pruned |-> {},
           cs |-> Append(ParamCells, MkCell(BitsOf([k \in 1..32 |-> 85]), r, OrdinaryCell)),
           at |-> Len(ParamCells) + 1, done |-> FALSE, out |-> NoOut] : r \in {<<8>>, <<>>}}

\* ----- cell records

\* data buffers of bit_len bits, for bit_len not a multiple of 8: whole
\* bytes, then the top bit_len % 8 bits of a byte with its low bits zero
PartialData(bit_len) ==
    {Append([k \in 1..(bit_len \div 8) |-> b], last - (last % Pow2(8 - (bit_len % 8))))
        : b \in {0, 165, 255}, last \in {0, 90, 165, 255}}

RawCellCalls ==
    UNION {{[op |-> "write_raw_cell",
             cell |-> [NoRawCell EXCEPT !.data = d, !.bit_len = bit_len, !.references = refs],
             done |-> FALSE, out |-> NoOut] : d \in PartialData(bit_len), refs \in {<<>>, <<1, 2>>}}
              : bit_len \in {n \in (1..23) \cup (1017..1023) : n % 8 # 0}}

\* cells of bit_len bits with data of ceil(bit_len / 8) bytes, up to the 128
\* bytes of 1017 to 1023 bits
BitsDescriptorCalls ==
    {[op |-> "get_bits_descriptor", bit_len |-> n, data |-> [k \in 1..((n + 7) \div 8) |-> b],
      done |-> FALSE, out |-> NoOut]
        : n \in {0, 1, 7, 8, 9, 16, 511, 512, 1009, 1015, 1016, 1017, 1020, 1023}, b \in {0, 128}}

\* ----- bags of cells

\* bags of four ordinary cells with the root last: diamonds, chains, shared
\* and repeated children, a cell out of reach; the cells differ in their
\* data or are equal as values wherever their references allow
BagCalls ==
    {[op |-> "to_raw",
      cs |-> <<MkCell(U(IF same THEN 0 ELSE 1, 8), <<>>, OrdinaryCell),
               MkCell(U(IF same THEN 0 ELSE 2, 8), r2, OrdinaryCell),
               MkCell(U(IF same THEN 0 ELSE 3, 8), r3, OrdinaryCell),
               MkCell(U(IF same THEN 0 ELSE 4, 8), r4, OrdinaryCell)>>,
      at |-> 4, done |-> FALSE, out |-> NoOut]
        : same \in BOOLEAN, r2 \in {<<>>, <<1>>, <<1, 1>>},
          r3 \in {<<>>, <<1>>, <<2>>, <<1, 2>>, <<2, 1>>},
          r4 \in {<<1, 2, 3>>, <<3, 2, 1>>, <<3>>, <<2, 3>>, <<3, 1>>, <<1, 2>>}}

\* ----- serialized bags

\* the envelope with tot_cells_size written as tot
SizedEnvelope(rs, roots, flags, tot, tail) ==
    GENERIC_BOC_MAGIC \o <<flags + 1, 2>> \o <<Len(rs), Len(roots), 0>>
    \o BE(tot, 2) \o roots \o EncodeCells(rs) \o tail

\* bags of one, two and three cells whose tot_cells_size is the size of the
\* cell records or a few bytes off, with and without a checksum and bytes
\* after the records
RawParseCalls ==
    {[op |-> "RawBagOfCells_parse", rs |-> rs,
      serial |-> SizedEnvelope(rs, <<0>>, flags, Max(0, Len(EncodeCells(rs)) + d), tail),
      done |-> FALSE, out |-> NoOut]
        : rs \in {<<Rec(0, 2, <<>>, <<1>>, <<>>)>>,
                  <<Rec(1, 2, <<>>, <<9>>, <<1>>), Rec(0, 0, <<>>, <<>>, <<>>)>>,
                  <<Rec(2, 0, <<>>, <<>>, <<1, 2>>), Rec(1, 0, <<>>, <<>>, <<2>>),
                    Rec(0, 2, <<>>, <<1>>, <<>>)>>},
          flags \in {0, 64}, d \in {-300, -2, -1, 0, 1, 2, 4, 5, 300},
          tail \in {<<>>, <<9>>, <<1, 2, 3, 4>>, <<1, 2, 3, 4, 5, 6>>}}

\* serialized bags with has_crc32c set and no checksum yet
CrcBodies ==
    {Envelope(<<l>>, <<0>>, 64, <<>>) : l \in Leaves}
    \cup {Envelope(<<p, Rec(0, 2, <<>>, <<1>>, <<>>)>>, <<0>>, 64, <<>>)
             : p \in Parents(LeafCell(Rec(0, 2, <<>>, <<1>>, <<>>)))}
    \cup {Envelope(t, <<0>>, 64, <<>>) : t \in Triples}

\* two inputs of BagOfCells::parse that differ in the four checksum bytes
\* only; the first carries the checksum of its bytes or zeros
ParseCalls ==
    {c \in {[op |-> "BagOfCells_parse",
             serial |-> b \o (IF own THEN crc32c(b) ELSE <<0, 0, 0, 0>>),
             other |-> b \o t, done |-> FALSE, out |-> NoOut]
               : b \in CrcBodies, own \in BOOLEAN,
                 t \in {<<1, 2, 3, 4>>, <<0, 0, 0, 0>>, <<255, 255, 255, 255>>}}
        : c.serial # c.other}

\* ----- parsers

\* the number of reads made on one parser
MaxReads == 2

\* Cell::parser() on ordinary cells of 0, 2, 8, 11 and 16 bits
ParserCalls ==
    {[op |-> "parser", p |-> parser(MkCell(U(v, n), <<>>, OrdinaryCell)), reads |-> 0,
      from |-> 0, width |-> 0, done |-> FALSE, out |-> NoOut]
        : v \in {0, 1365}, n \in {0, 2, 8, 11, 16}}

\* ----- Merkle-update cells

\* a finalized child with the level mask m: a pruned branch, or for mask 0
\* an ordinary cell without references
MaskedChild(m) ==
    IF m = 0 THEN MkCell(<<>>, <<>>, OrdinaryCell)
    ELSE [MkCell(BitsOf(PrunedData(m, get_hashes_count_from_mask(m) - 1, 0)), <<>>,
                 PrunnedBranchCell) EXCEPT !.level_mask = m]

\* a Merkle-update cell over two children with the level masks left, right
LevelMaskCalls ==
    {[op |-> "get_level_mask", left |-> l, right |-> r,
      cs |-> <<MaskedChild(l), MaskedChild(r),
               MkCell(<<0, 0, 0, 0, 0, 1, 0, 0>>, <<1, 2>>, MerkleUpdateCell)>>,
      at |-> 3, done |-> FALSE, out |-> NoOut] : l \in 0..7, r \in 0..7}

\* cell records whose partial last data byte is zero, and one whose is not
ReadCellCalls ==
    {[op |-> "read_cell", bytes |-> <<refs, 2 * (Len(d) + 1) - 1>> \o d \o <<last>> \o Zeros(refs),
      done |-> FALSE, out |-> NoOut]
        : refs \in {0, 2}, d \in {<<>>, <<0>>, <<255>>, <<165, 0>>}, last \in {0, 128, 1}}

\* ----- resolve_cell_type

ResolveCalls ==
    {[op |-> "resolve_cell_type", is_exotic |-> x, data |-> d, done |-> FALSE, out |-> NoOut]
        : x \in BOOLEAN,
          d \in {<<>>} \cup {<<b>> : b \in {0, 1, 2, 3, 4, 5, 8, 255}}
                \cup {<<b, 3>> : b \in {0, 1, 2, 3, 4, 5, 8, 255}}}

\* ----- address cells

\* an address: the 2-bit tag, a reserved bit, the workchain byte and the
\* bytes of the hash part
AddressBits(tag, wc, hash) == U(tag, 2) \o <<0>> \o U(wc, 8) \o BitsOf(hash)

AddressCalls ==
    {[op |-> "load_address", tag |-> tag, wc |-> wc, hash |-> hash,
      cs |-> <<MkCell(Take(AddressBits(tag, wc, hash), len) \o more, <<>>, OrdinaryCell)>>,
      at |-> 1, done |-> FALSE, out |-> NoOut]
        : tag \in 0..3, wc \in {0, 1, 127, 128, 255},
          hash \in {[k \in 1..32 |-> 171], [k \in 1..32 |-> k]},
          len \in {1, 2, 10, 200, 267}, more \in {<<>>, <<1, 0, 1, 1, 0>>}}

ParseFullyCalls == {[c EXCEPT !.op = "parse_fully"] : c \in AddressCalls}

\* ----- cells of bounded numbers

\* load_uint_le(m) and load_uint_less(m) on a cell of 16 bits, or of 2
UintCalls ==
    {[op |-> op, m |-> m, cs |-> <<MkCell(bits, <<>>, OrdinaryCell)>>, at |-> 1,
      done |-> FALSE, out |-> NoOut]
        : op \in {"load_uint_le", "load_uint_less"},
          m \in (0..9) \cup {15, 16, 17, 255, 256, 1023},
          bits \in {U(46811, 16), U(0, 16), U(65535, 16), <<1, 0>>}}

\* ----- cells with references

\* two cells that hold an address, or the start of one, and a cell with
\* references to them; each of the two is ordinary or a pruned branch
RefCells ==
    {<<MkCell(Take(AddressBits(t1, 255, [k \in 1..32 |-> k]), l1), <<>>, c1),
       MkCell(Take(AddressBits(2, 0, [k \in 1..32 |-> 171]), 267), <<>>, c2),
       MkCell(<<1, 0, 1>>, refs, OrdinaryCell)>>
        : t1 \in {0, 1, 2}, l1 \in {2, 100, 267},
          c1 \in {OrdinaryCell, PrunnedBranchCell}, c2 \in {OrdinaryCell, PrunnedBranchCell},
          refs \in {<<>>, <<1>>, <<1, 2>>, <<2, 1>>, <<2, 2, 1, 1>>}}

\* load_ref_if_exist(&mut ref_index, Some(|_, _, p| p.load_address()))
LoadRefCalls ==
    {[op |-> "load_ref_if_exist", cs |-> cs, at |-> 3, ref_index |-> ri,
      done |-> FALSE, out |-> NoOut] : cs \in RefCells, ri \in 0..4}

(* ------------------------- calls of the readers ----------------------- *)

\* One call of a public reader on cells that BagOfCells::parse has built:
\* call holds the reader's name and arguments and, once it has returned or
\* panicked, its outcome.

CallInputs == BlockCalls \cup BlockInfoCalls \cup HashmapCalls \cup ValidatorSetCalls
              \cup ConfigParamsCalls \cup RawCellCalls \cup ReadCellCalls
              \cup ResolveCalls \cup AddressCalls \cup ParseFullyCalls
              \cup LoadRefCalls \cup PrunedHashmapCalls \cup LongLabelCalls
              \cup UintCalls \cup BitsDescriptorCalls \cup LevelMaskCalls
              \cup BagCalls \cup ParserCalls

InitCall ==
    /\ serial = <<>>
    /\ build \in Builds
    /\ pc = "done"
    /\ raw = NoRawBag
    /\ cells = <<>>
    /\ cur = NoCur
    /\ res = NoRes
    /\ round = 1
    /\ orig = NoBag
    /\ hq = NoHq
    /\ chain = NoChain
    /\ call \in CallInputs
    /\ walk = NoWalk
    /\ steps = 0

Returned(out) ==
    /\ call' = [call EXCEPT !.done = TRUE, !.out = out]
    /\ UNCHANGED <<serial, build, pc, raw, cells, cur, res, round, orig, hq, chain, walk, steps>>

LoadBlockInfo ==
    /\ call.op = "load_block_info" /\ ~call.done
    /\ \E r \in {load_block_info(call.cs, call.cs[call.at], 0, parser(call.cs[call.at]), build)} :
          Returned(r)

LoadBlock ==
    /\ call.op = "load_block" /\ ~call.done
    /\ \E r \in {load_block(call.cs, call.cs[call.at], build, call.sub)} : Returned(r)

\* Hashmap::deserialize of a Hashmap newly made by Hashmap::new
Deserialize ==
    /\ call.op \in {"deserialize", "deserialize_pruned", "deserialize_long_label"} /\ ~call.done
    /\ \E r \in {deserialize(call.cs, call.cs[call.at], 0, parser(call.cs[call.at]), call.n,
                                call.f, NewHashmap, build)} : Returned(r)

LoadValidatorSet ==
    /\ call.op = "load_validator_set" /\ ~call.done
    /\ \E r \in {load_validator_set(call.cs, call.cs[call.at], 0, parser(call.cs[call.at]), build)}
          : Returned(r)

LoadConfigParams ==
    /\ call.op = "load_config_params" /\ ~call.done
    /\ \E r \in {load_config_params(call.cs, call.cs[call.at], 0, parser(call.cs[call.at]), build)}
          : Returned(r)

\* write_raw_cell with references one byte wide, then read_cell on the bytes
\* written
WriteRawCell ==
    /\ call.op = "write_raw_cell" /\ ~call.done
    /\ \E w \in {write_raw_cell(call.cell, 1)} :
          Returned([e |-> w.e, written |-> w.val, read |-> read_cell(w.val, 0, 1)])

ReadCell ==
    /\ call.op = "read_cell" /\ ~call.done
    /\ \E r \in {read_cell(call.bytes, 0, 1)} : Returned(r)

ResolveCellType ==
    /\ call.op = "resolve_cell_type" /\ ~call.done
    /\ \E r \in {resolve_cell_type(call.is_exotic, call.data)} : Returned(r)

LoadAddress ==
    /\ call.op = "load_address" /\ ~call.done
    /\ \E r \in {load_address(parser(call.cs[call.at]))} : Returned(r)

\* Cell::parse_fully with the closure |p| p.load_address(); parsed is what
\* the closure returned
ParseFully ==
    /\ call.op = "parse_fully" /\ ~call.done
    /\ \E r \in parse_fully(call.cs[call.at], load_address) :
          Returned([e |-> r.e, val |-> r.val, parsed |-> load_address(parser(call.cs[call.at]))])

\* Cell::load_ref_if_exist with the closure |_, _, p| p.load_address()
LoadRefIfExist ==
    /\ call.op = "load_ref_if_exist" /\ ~call.done
    /\ \E r \in {load_ref_if_exist(call.cs, call.cs[call.at], call.ref_index,
                                   LAMBDA c, ri, q : load_address(q))} : Returned(r)

LoadUintLe ==
    /\ call.op = "load_uint_le" /\ ~call.done
    /\ \E r \in {load_uint_le(parser(call.cs[call.at]), call.m, build)} : Returned(r)

LoadUintLess ==
    /\ call.op = "load_uint_less" /\ ~call.done
    /\ \E r \in {load_uint_less(parser(call.cs[call.at]), call.m, build)} : Returned(r)

\* Cell::get_bits_descriptor, and the descriptor bytes write_raw_cell writes
\* for the RawCell with the same data
GetBitsDescriptor ==
    /\ call.op = "get_bits_descriptor" /\ ~call.done
    /\ \E r \in {get_bits_descriptor([NoCell EXCEPT !.data = call.data, !.bit_len = call.bit_len],
                                     build)} :
       \E w \in {write_raw_cell([NoRawCell EXCEPT !.data = call.data, !.bit_len = call.bit_len], 1)} :
          Returned([e |-> r.e, val |-> r.val, written |-> w.val])

\* Cell::get_level_mask of a Merkle-update cell, as to_raw calls it for
\* max_level, and the level mask finalize stores for the same children
GetLevelMask ==
    /\ call.op = "get_level_mask" /\ ~call.done
    /\ \E r \in {get_level_mask(call.cs, call.cs[call.at])} :
          Returned([e |-> r.e, val |-> r.val,
                    stored |-> update_level_mask(call.cs[1], call.cs[2])])

\* BagOfCells::to_raw on the bag with the one root call.at: one step for
\* each order in which the hash set no_in_refs can yield its cells
ToRaw ==
    /\ call.op = "to_raw" /\ ~call.done
    /\ \E r \in to_raw(call.cs, <<call.at>>) : Returned(r)

\* RawBagOfCells::parse on call.serial
RawBagOfCellsParse ==
    /\ call.op = "RawBagOfCells_parse" /\ ~call.done
    /\ \E r \in {RawBagOfCells_parse(call.serial)} : Returned(r)

\* BagOfCells::parse on call.serial and on call.other
BagOfCellsParse ==
    /\ call.op = "BagOfCells_parse" /\ ~call.done
    /\ \E r \in {[k \in 1..2 |-> BagOfCells_parse(IF k = 1 THEN call.serial ELSE call.other, build)]} :
           Returned([e |-> r[1].e, val |-> r[1], other |-> r[2]])

\* the reads of one width and their widths in bits
one_read(p, f, n, bld) ==
    IF f = "load_bit" THEN load_bit(p)
    ELSE IF f = "load_u8" THEN load_u8(p, n)
    ELSE IF f = "load_uint" THEN load_uint(p, n, bld)
    ELSE load_bytes(p, n)

read_width(f, n) == IF f = "load_bit" THEN 1 ELSE IF f = "load_bytes" THEN 8 * n ELSE n

\* one more read on the parser of call: load_bit, load_u8, load_uint or
\* load_bytes; a failed read ends the sequence
ParserRead ==
    /\ call.op = "parser" /\ ~call.done
    /\ \E f \in {"load_bit", "load_u8", "load_uint", "load_bytes"} :
       \E n \in IF f = "load_bit" THEN {1} ELSE IF f = "load_bytes" THEN 1..2 ELSE 1..8 :
       \E r \in {one_read(call.p, f, n, build)} :
           call' = [call EXCEPT !.p = r.p, !.reads = @ + 1, !.from = call.p.pos,
                                !.width = read_width(f, n), !.out = [e |-> r.e],
                                !.done = ~IsOk(r.e) \/ call.reads + 1 = MaxReads]
    /\ UNCHANGED <<serial, build, pc, raw, cells, cur, res, round, orig, hq, chain, walk, steps>>

NextCall == \/ LoadBlockInfo \/ LoadBlock \/ Deserialize \/ LoadValidatorSet \/ LoadConfigParams
            \/ WriteRawCell \/ ReadCell \/ ResolveCellType \/ LoadAddress \/ ParseFully
            \/ LoadRefIfExist \/ LoadUintLe \/ LoadUintLess \/ GetBitsDescriptor
            \/ GetLevelMask \/ ToRaw \/ ParserRead

SpecCall == InitCall /\ [][NextCall]_vars

\* the calls of RawBagOfCells::parse on given bytes
InitRawParse ==
    /\ serial = <<>>
    /\ build \in Builds
    /\ pc = "done"
    /\ raw = NoRawBag
    /\ cells = <<>>
    /\ cur = NoCur
    /\ res = NoRes
    /\ round = 1
    /\ orig = NoBag
    /\ hq = NoHq
    /\ chain = NoChain
    /\ call \in RawParseCalls
    /\ walk = NoWalk
    /\ steps = 0

NextRawParse == RawBagOfCellsParse

SpecRawParse == InitRawParse /\ [][NextRawParse]_vars

\* the calls of BagOfCells::parse on two inputs
InitParse ==
    /\ serial = <<>>
    /\ build \in Builds
    /\ pc = "done"
    /\ raw = NoRawBag
    /\ cells = <<>>
    /\ cur = NoCur
    /\ res = NoRes
    /\ round = 1
    /\ orig = NoBag
    /\ hq = NoHq
    /\ chain = NoChain
    /\ call \in ParseCalls
    /\ walk = NoWalk
    /\ steps = 0

NextParse == BagOfCellsParse

SpecParse == InitParse /\ [][NextParse]_vars

(* ------------------- hashmap.rs: the calls of load_hashmap ------------ *)

\* The nested calls of Hashmap::load_hashmap, one frame for each call that
\* has not returned: the arguments of the call and the place in its body
\* where it stands ("enter", or waiting for the call it made for the left
\* child, the right child or after a label).  ref_index and parser are
\* passed by reference after a label and fresh to a child.

Frame(cell, ref_index, p, n, key, fork) ==
    [cell |-> cell, ref_index |-> ref_index, p |-> p, n |-> n, key |-> key, fork |-> fork,
     at |-> "enter"]

\* a call for a child that reads the cell of its caller again
child_call_on_caller(cs, top, ref, bit) ==
    Frame(top.cell, 0, parser(cs[top.cell]), top.n - 1, Shl(top.key, 1) + bit, ~top.fork)

\* the call load_hashmap makes for the child behind reference ref
child_call(cs, top, ref, bit) ==
    Frame(ref, 0, parser(cs[ref]), top.n - 1, Shl(top.key, 1) + bit, ~top.fork)

\* the call load_hashmap makes on the same cell after a label
label_call(top, p, n, key) == Frame(top.cell, top.ref_index, p, n, key, ~top.fork)

\* the innermost call returns e; its caller sees ref_index and p
Return(w, e, ref_index, p) ==
    [w EXCEPT !.stack = SubSeq(w.stack, 1, Len(w.stack) - 1),
              !.ret = [e |-> e, ref_index |-> ref_index, p |-> p],
              !.pc = IF Len(w.stack) = 1 THEN "done" ELSE "run"]

\* the innermost call calls load_hashmap and waits at the place at
Call(w, at, frame) ==
    [w EXCEPT !.stack = Append([w.stack EXCEPT ![Len(w.stack)].at = at], frame),
              !.deepest = Max(w.deepest, Len(w.stack) + 1)]

\* the body of load_hashmap up to its first call or its return
enter(w, top, c, bld) ==
    LET called == [w EXCEPT !.hm.leaves = Append(@, top.key)]
        leaf(r) == IF IsOk(r.e) /\ r.val.some
                   THEN Return([called EXCEPT !.hm.map = insert(@, to_str_radix(top.key, 16), r.val.val)],
                               Ok, r.ref_index, r.p)
                   ELSE Return(called, r.e, r.ref_index, r.p)
        left(ref) == IF ~IsOk(ref.e) THEN Return(w, ref.e, top.ref_index, top.p)
                     ELSE Call(w, "left", child_call(w.cs, top, ref.val, 0))
        edge(lab, m) == IF ~IsOk(m.e) THEN Return(w, m.e, top.ref_index, lab.p)
                        ELSE Call(w, "label", label_call(top, lab.p, m.val,
                                                         Shl(top.key, lab.n) + lab.val))
        labelled(lab) == IF ~IsOk(lab.e) THEN Return(w, lab.e, top.ref_index, lab.p)
                         ELSE IF lab.n > 0 THEN edge(lab, usize_sub(top.n, lab.n, bld))
                         ELSE Call(w, "label", label_call(top, lab.p, top.n, top.key))
    IN  IF c.cell_type # OrdinaryCell
        THEN Return(IF c.cell_type = PrunnedBranchCell
                    THEN [w EXCEPT !.hm.pruned = Append(@, to_str_radix(top.key, 2))] ELSE w,
                    Ok, top.ref_index, top.p)
        ELSE IF top.n = 0 /\ top.fork
             THEN leaf(leaf_fn(w.f, w.cs, c, top.ref_index, top.p, top.key, bld))
        ELSE IF top.fork THEN left(reference(c, top.ref_index))
        ELSE labelled(load_label(top.p, top.n, bld))

\* after the call for the left child: *ref_index += 1, then the right child
after_left(w, top, c) ==
    LET right(ref) == IF ~IsOk(ref.e) THEN Return(w, ref.e, top.ref_index + 1, top.p)
                      ELSE Call([w EXCEPT !.stack[Len(w.stack)].ref_index = @ + 1], "right",
                                child_call(w.cs, top, ref.val, 1))
    IN  IF ~IsOk(w.ret.e) THEN Return(w, w.ret.e, top.ref_index, top.p)
        ELSE right(reference(c, top.ref_index + 1))

\* after the call for the right child: *ref_index += 1 and Ok(())
after_right(w, top) ==
    IF ~IsOk(w.ret.e) THEN Return(w, w.ret.e, top.ref_index, top.p)
    ELSE Return(w, Ok, top.ref_index + 1, top.p)

\* after the call that follows a label: its result is the result
after_label(w) == Return(w, w.ret.e, w.ret.ref_index, w.ret.p)

\* the number of references on the longest path from cell i
RECURSIVE cell_depth(_, _)
cell_depth(cs, i) ==
    IF cs[i].references = <<>> THEN 0
    ELSE LET below == {cell_depth(cs, cs[i].references[k]) : k \in 1..Len(cs[i].references)}
         IN  1 + (CHOOSE d \in below : \A x \in below : x <= d)

NoRet == [e |-> Ok, ref_index |-> 0]

\* Hashmap::deserialize on the cell root of cs: load_hashmap is entered with
\* key 0 and fork false
Walk(cs, root, n, f) ==
    [pc |-> "run", cs |-> cs, root |-> root, n |-> n, f |-> f,
     stack |-> <<Frame(root, 0, parser(cs[root]), n, 0, FALSE)>>,
     hm |-> NewHashmap, ret |-> NoRet, deepest |-> 1]

\* data of cells that are no Hashmap: an empty label, a label of one bit,
\* an hml_same label of length 0 and no data at all
DagData == {<<0, 0>>, <<0, 1, 0, 1>>, <<1, 1, 0, 0>>, <<>>}

\* three cells, each with references to the cells before it
DagCells ==
    {<<MkCell(d1, <<>>, t1), MkCell(d2, r2, OrdinaryCell), MkCell(d3, r3, OrdinaryCell)>>
        : d1 \in DagData, t1 \in {OrdinaryCell, PrunnedBranchCell},
          d2 \in DagData \ {<<>>}, r2 \in {<<1, 1>>, <<1>>},
          d3 \in DagData \ {<<>>}, r3 \in {<<2, 2>>, <<2, 1>>, <<1>>}}

WalkInputs ==
    {Walk(c.cs, c.at, c.n, c.f) : c \in HashmapCalls}
    \cup {Walk(cs, 3, n, "load_validator_descr") : cs \in DagCells, n \in 0..3}

\* no call of deserialize has been made
NoCallYet == [pc |-> "idle"]

InitWalk ==
    /\ serial = <<>>
    /\ build \in Builds
    /\ pc = "done"
    /\ raw = NoRawBag
    /\ cells = <<>>
    /\ cur = NoCur
    /\ res = NoRes
    /\ round = 1
    /\ orig = NoBag
    /\ hq = NoHq
    /\ chain = NoChain
    /\ call = NoCall
    /\ walk = NoCallYet
    /\ steps = 0

\* one step of the thread that runs the call
Stepped(w) ==
    /\ walk' = w
    /\ steps' = steps + 1
    /\ UNCHANGED <<serial, build, pc, raw, cells, cur, res, round, orig, hq, chain, call>>

Running(at) == walk.pc = "run" /\ walk.stack[Len(walk.stack)].at = at

\* Hashmap::deserialize is called on a cell and makes the first call of
\* load_hashmap
EnterDeserialize ==
    /\ walk.pc = "idle"
    /\ \E w \in WalkInputs : Stepped(w)

Enter ==
    /\ Running("enter")
    /\ \E top \in {walk.stack[Len(walk.stack)]} : Stepped(enter(walk, top, walk.cs[top.cell], build))

AfterLeft ==
    /\ Running("left")
    /\ \E top \in {walk.stack[Len(walk.stack)]} : Stepped(after_left(walk, top, walk.cs[top.cell]))

AfterRight ==
    /\ Running("right")
    /\ Stepped(after_right(walk, walk.stack[Len(walk.stack)]))

AfterLabel ==
    /\ Running("label")
    /\ Stepped(after_label(walk))

NextWalk == EnterDeserialize \/ Enter \/ AfterLeft \/ AfterRight \/ AfterLabel

SpecWalk == InitWalk /\ [][NextWalk]_vars

\* The thread that runs the call is not stopped: while deserialize has not
\* returned, it takes its next step.  Every step of NextWalk counts one step
\* and every state with a call that has not returned has a step of NextWalk,
\* so this is weak fairness of NextWalk.
Scheduled == walk.pc \in {"idle", "run"} /\ steps' = steps + 1

SpecWalkLive == SpecWalk /\ WF_steps(Scheduled)

(* ------------------------------ claims -------------------------------- *)

\* C1: for a bag boc with a single root, BagOfCells::parse(boc.serialize(false))
\* succeeds and returns a bag structurally equal to boc: the same data,
\* bit_len, references, cell_type, is_exotic, level_mask, hashes and depth
\* for every cell.
C1_RoundTripEqual ==
    LET RECURSIVE listed(_, _)
        listed(cs, k) ==
            [data |-> cs[k].data, bit_len |-> cs[k].bit_len,
             references |-> [j \in 1..Len(cs[k].references) |-> listed(cs, cs[k].references[j])],
             cell_type |-> cs[k].cell_type, is_exotic |-> cs[k].is_exotic,
             level_mask |-> cs[k].level_mask, hashes |-> cs[k].hashes, depth |-> cs[k].depth]
    IN  (round = 2 /\ pc = "done" /\ Len(orig.roots) = 1)
        => /\ IsOk(res.e)
           /\ Len(res.roots) = 1
           /\ listed(cells, res.roots[1]) = listed(orig.cells, orig.roots[1])

\* C2: for every cell that parse produced, cell_hash() equals hashes[0].
C2_CellHashIsFirstHash ==
    hq.idx # 0 => (IsOk(hq.e) /\ hq.val = cells[hq.idx].hashes[1])

\* C3: finalize returns Ok for a Merkle-proof cell (exotic, first data byte 3)
\* exactly when it has one reference, 35 bytes of data, the child's level-0
\* hash in bytes 1..33 and the child's level-0 depth in bytes 33..35; the
\* accepted cell gets level_mask = child.level_mask >> 1, and a stored hash
\* that differs from the child's is rejected with "Hash mismatch in a
\* MerkleProof special cell".
C3_MerkleProofAccepted ==
    LET c == cur.before
        child == cells[c.references[1]]
        pruned == child.cell_type = PrunnedBranchCell
        top == get_hashes_count(child) - 1
        hash0 == IF pruned THEN SubSeq(child.data, 3, 2 + HASH_BYTES) ELSE child.hashes[1]
        depth0 == IF pruned
                  THEN child.data[3 + top * HASH_BYTES] * 256 + child.data[4 + top * HASH_BYTES]
                  ELSE child.depth[1]
        shaped == Len(c.references) = 1 /\ Len(c.data) = 35
        hash_ok == SubSeq(c.data, 2, 33) = hash0
        depth_ok == c.data[34] * 256 + c.data[35] = depth0
    IN  (cur.finalized /\ c.is_exotic /\ c.bit_len >= 8 /\ c.data[1] = MerkleProofCell)
        => /\ IsOk(cur.e) <=> (shaped /\ hash_ok /\ depth_ok)
           /\ IsOk(cur.e) => cells[Len(cells)].level_mask = child.level_mask \div 2
           /\ (shaped /\ ~hash_ok)
              => cur.e = BocDeserializationError("Hash mismatch in a MerkleProof special cell")

\* C4: every Merkle-update cell that finalize accepts has two references and
\* carries both children's level-0 hashes (bytes 1..33 and 33..65) and
\* level-0 depths (bytes 65..67 and 67..69); a mismatch in any one of the
\* four fields is rejected with a BocDeserializationError.
C4_MerkleUpdateAccepted ==
    LET c == cur.before
        hash0(ch) == IF ch.cell_type = PrunnedBranchCell
                     THEN SubSeq(ch.data, 3, 2 + HASH_BYTES) ELSE ch.hashes[1]
        depth0(ch) == IF ch.cell_type = PrunnedBranchCell
                      THEN ch.data[3 + (get_hashes_count(ch) - 1) * HASH_BYTES] * 256
                           + ch.data[4 + (get_hashes_count(ch) - 1) * HASH_BYTES]
                      ELSE ch.depth[1]
        shaped == Len(c.references) = 2 /\ Len(c.data) = 69
        matches == /\ SubSeq(c.data, 2, 33) = hash0(cells[c.references[1]])
                   /\ SubSeq(c.data, 34, 65) = hash0(cells[c.references[2]])
                   /\ c.data[66] * 256 + c.data[67] = depth0(cells[c.references[1]])
                   /\ c.data[68] * 256 + c.data[69] = depth0(cells[c.references[2]])
    IN  (cur.finalized /\ c.is_exotic /\ c.bit_len >= 8 /\ c.data[1] = MerkleUpdateCell)
        => /\ IsOk(cur.e) => (shaped /\ matches)
           /\ (shaped /\ ~matches) => cur.e.kind = "BocDeserializationError"

\* C5: parse returns an Err value, without panicking, for every BoC in which
\* a reference index or a root index is >= the number of cells.
C5_OutOfRangeIndexIsErr ==
    LET n == Len(raw.cells)
        out_of_range ==
            \/ \E k \in 1..n : \E j \in 1..Len(raw.cells[k].references) :
                  raw.cells[k].references[j] >= n
            \/ \E j \in 1..Len(raw.roots) : raw.roots[j] >= n
    IN  (pc = "done" /\ round = 1 /\ out_of_range) => IsErr(res.e)

\* C6: every Ordinary cell that parse produced has level_mask equal to the
\* bitwise OR of its children's level masks (0 without references), whatever
\* level bits its descriptor byte d1 carried.
C6_OrdinaryLevelMaskIsOrOfChildren ==
    LET RECURSIVE or_of(_, _)
        or_of(refs, acc) == IF refs = <<>> THEN acc
                            ELSE or_of(Tail(refs), BitOr(acc, cells[Head(refs)].level_mask))
    IN  (pc = "done" /\ IsOk(res.e))
        => \A k \in 1..Len(cells) :
              cells[k].cell_type = OrdinaryCell
              => cells[k].level_mask = or_of(cells[k].references, 0)

\* C7: after a successful finalize, hashes and depth have the same length and
\* every entry is filled (each hash is 32 bytes); the length is the number of
\* significant levels (level 0, and level i > 0 iff bit i - 1 of level_mask
\* is set), that is popcount(level_mask & 7) + 1, for a cell that is not a
\* pruned branch, and 1 for a pruned branch.
C7_HashesAndDepthPerSignificantLevel ==
    \A k \in 1..Len(cells) :
        LET c == cells[k]
            significant == {i \in 0..3 : i = 0 \/ Bit(c.level_mask, i - 1) = 1}
        IN  /\ Len(c.hashes) = Len(c.depth)
            /\ \A j \in 1..Len(c.hashes) : Len(c.hashes[j]) = 32
            /\ \A j \in 1..Len(c.depth) : c.depth[j] \in 0..65535
            /\ Len(c.hashes) = IF c.cell_type = PrunnedBranchCell THEN 1
                               ELSE Cardinality(significant)

\* C7 witness: parse has finalized an Ordinary cell with level mask 5, whose
\* two significant levels and level 0 give it three hashes.
C7_Witness ==
    /\ \E k \in 1..Len(cells) :
          /\ cells[k].cell_type = OrdinaryCell
          /\ cells[k].level_mask = 5
          /\ Len(cells[k].hashes) = 3
    /\ cur.finalized /\ IsOk(cur.e)

\* C8: every depth[i] of a cell that finalize accepts is < 1024: finalize
\* fails with "Depth is too big" whenever 1 + the maximum of the children's
\* depths would be >= 1024.  (In a chain the one child is the cell that
\* `cells` keeps.)
C8_DepthBelow1024 ==
    /\ \A k \in 1..Len(cells) : \A j \in 1..Len(cells[k].depth) : cells[k].depth[j] < 1024
    /\ (/\ cur.finalized
        /\ ~IsOk(cur.e)
        /\ Len(cur.before.references) = 1
        /\ 1 + cells[1].depth[1] >= 1024)
       => cur.e = BocDeserializationError("Depth is too big")

\* C9, as stated: parse rejects with "References to previous cells are not
\* supported" every BoC in which a cell at index i carries a reference index
\* r <= i; and in a bag that parse returns no cell reaches itself.
C9_PreviousReferenceError ==
    LET has_previous ==
            \E k \in 1..Len(raw.cells) : \E j \in 1..Len(raw.cells[k].references) :
                raw.cells[k].references[j] <= k - 1
    IN  /\ (pc = "done" /\ has_previous)
           => res.e = BocDeserializationError("References to previous cells are not supported")
        /\ \A k \in 1..Len(cells) : \A j \in 1..Len(cells[k].references) :
              cells[k].references[j] < k

\* C9, amended: parse never returns Ok for a BoC in which a cell at index i
\* carries a reference index r <= i.  The loop visits the cells from the last
\* index down; the iteration that reaches a cell whose references before its
\* first r <= i all lie strictly between i and the number of cells ends with
\* "References to previous cells are not supported".  In the vector that parse
\* builds every reference of a cell is a cell pushed before it, so no cell
\* reaches itself.
C9_PreviousReferenceRejected ==
    LET n == Len(raw.cells)
        has_previous ==
            \E k \in 1..n : \E j \in 1..Len(raw.cells[k].references) :
                raw.cells[k].references[j] <= k - 1
        refs == raw.cells[cur.i + 1].references
        first_failing_is_previous ==
            \E j \in 1..Len(refs) :
                /\ refs[j] <= cur.i
                /\ \A h \in 1..(j - 1) : cur.i < refs[h] /\ refs[h] < n
    IN  /\ (pc = "done" /\ has_previous) => ~IsOk(res.e)
        /\ (cur.i >= 0 /\ first_failing_is_previous)
           => /\ cur.e = BocDeserializationError("References to previous cells are not supported")
              /\ ~cur.finalized
              /\ res.e = cur.e
        /\ \A k \in 1..Len(cells) : \A j \in 1..Len(cells[k].references) :
              cells[k].references[j] < k

\* C9 witness: the loop has reached a cell at index 0 that references itself,
\* below cells that were finalized, and parse has returned the error.
C9_Witness ==
    /\ pc = "done"
    /\ cur.i = 0
    /\ Len(cells) >= 1
    /\ \E j \in 1..Len(raw.cells[1].references) : raw.cells[1].references[j] = 0
    /\ res.e = BocDeserializationError("References to previous cells are not supported")

\* C10: every cell of a bag that parse returns has 0..4 references and a
\* bit_len in 0..1023.
C10_RefsAndBitLenInRange ==
    (pc = "done" /\ IsOk(res.e))
    => \A k \in 1..Len(cells) :
          /\ Len(cells[k].references) \in 0..4
          /\ cells[k].bit_len \in 0..1023

\* the 32-bit gen_utime field of a BlockInfo cell: bits 248..279 of its data
GenUtimeField(c) == Num(SubSeq(BitsOf(c.data), 249, 280))

\* C11: the BlockInfo that load_block_info returns, and so the info field of
\* the BlockData that load_block returns, has gen_utime equal to the 32-bit
\* gen_utime field read from the BlockInfo cell.
C11_GenUtimeIsTheFieldRead ==
    /\ (call.op = "load_block_info" /\ call.done /\ IsOk(call.out.e))
          => call.out.val.gen_utime = GenUtimeField(call.cs[call.at])
    /\ (call.op = "load_block" /\ call.done /\ IsOk(call.out.e) /\ call.out.val.info.some)
          => call.out.val.info.val.gen_utime
                = GenUtimeField(call.cs[call.cs[call.at].references[1]])

\* what the reader of slot k (1..4) returns on the cell in that slot
SlotResult(k) ==
    LET c == call.cs[call.cs[call.at].references[k]]
    IN  IF k = 1 THEN load_block_info(call.cs, c, 0, parser(c), build)
        ELSE IF k = 2 THEN load_value_flow(call.cs, c, 0, parser(c))
        ELSE IF k = 3 THEN load_merkle_update(call.cs, c, 0, parser(c))
        ELSE load_block_extra(call.cs, c, 0, parser(c), call.sub)

\* C12: load_block returns an Err value, and does not panic, when the cell
\* has fewer than four references or a slot holds a cell that is not a
\* pruned branch and whose reader returns an error; it returns Ok only when
\* every slot was decoded or is a pruned branch.
C12_LoadBlockReturnsErr ==
    LET root == call.cs[call.at]
        undecoded == \E k \in 1..Len(root.references) :
                        /\ k <= 4
                        /\ call.cs[root.references[k]].cell_type # PrunnedBranchCell
                        /\ IsErr(SlotResult(k).e)
        bad == Len(root.references) < 4 \/ undecoded
    IN  (call.op = "load_block" /\ call.done)
        => /\ bad => IsErr(call.out.e)
           /\ IsOk(call.out.e) => ~bad

\* C13: on a well-formed Hashmap of key width n whose cells are all ordinary,
\* load_hashmap succeeds, calls the leaf function exactly once for each
\* leaf and inserts one entry for each leaf; the key of the entry is the
\* n-bit number that the label bits and branch bits on the path to the leaf
\* spell, and its value is what the leaf holds.
C13_OneEntryPerLeaf ==
    (call.op = "deserialize" /\ call.done)
    => /\ IsOk(call.out.e)
       /\ Len(call.out.val.leaves) = Cardinality(call.keys)
       /\ {call.out.val.leaves[i] : i \in 1..Len(call.out.val.leaves)} = call.keys
       /\ DOMAIN call.out.val.map = {to_str_radix(k, 16) : k \in call.keys}
       /\ \A k \in call.keys : call.out.val.map[to_str_radix(k, 16)] = ValidatorDescrOf(k)

\* C14: every Validators value that load_validator_set returns with Ok has
\* total >= main >= 1, whatever the 8-bit type tag of the cell is; a cell
\* with total < main or main < 1 gives a CellParserError.
C14_TotalMainOrdered ==
    (call.op = "load_validator_set" /\ call.done)
    => /\ IsOk(call.out.e) => (call.out.val.total >= call.out.val.main /\ call.out.val.main >= 1)
       /\ (call.total < call.main \/ call.main < 1) => call.out.e.kind = "CellParserError"

\* the key under which parameter k stands: its number in hexadecimal
ParamKey(k) == IF k = 0 THEN <<"0">> ELSE IF k = 32 THEN <<"2", "0">>
               ELSE IF k = 33 THEN <<"2", "1">> ELSE IF k = 34 THEN <<"2", "2">>
               ELSE <<"2", "4">>

\* C15: the map that load_config_params builds has one entry for each
\* parameter whose cell is not a pruned branch, under the hexadecimal
\* rendering of the parameter number (34 under "22", 32 under "20"); the
\* entry is Some(ConfigParam) exactly for the numbers 32, 34 and 36, with
\* the variant ConfigParams32, ConfigParams34, ConfigParams36 holding the
\* ValidatorSet decoded from the parameter cell, and None for every other
\* number.
C15_ConfigParamsMap ==
    (call.op = "load_config_params" /\ call.done /\ IsOk(call.out.e))
    => /\ DOMAIN call.out.val.config = {ParamKey(k) : k \in call.nums \ call.pruned}
       /\ \A k \in call.nums \ call.pruned :
             /\ call.out.val.config[ParamKey(k)].some <=> k \in {32, 34, 36}
             /\ k = 32 => call.out.val.config[<<"2", "0">>].val
                             = [variant |-> "ConfigParams32",
                                param |-> [number |-> 32, validators |-> ParamValidators(32)]]
             /\ k = 34 => call.out.val.config[<<"2", "2">>].val
                             = [variant |-> "ConfigParams34",
                                param |-> [number |-> 34, validators |-> ParamValidators(34)]]
             /\ k = 36 => call.out.val.config[<<"2", "4">>].val
                             = [variant |-> "ConfigParams36",
                                param |-> [number |-> 36, validators |-> ParamValidators(36)]]

\* load_config_params has returned a map with the parameters 32, 33, 34 and
\* 36 and without the pruned parameter 0
C15_Witness ==
    /\ call.op = "load_config_params" /\ call.done /\ IsOk(call.out.e)
    /\ call.nums = ParamNumbers /\ call.pruned = {0}
    /\ Cardinality(DOMAIN call.out.val.config) = 4
    /\ call.out.val.config[<<"2", "2">>].some
    /\ ~call.out.val.config[<<"2", "1">>].some

\* C16: for a data buffer of bit_len bits, bit_len not a multiple of 8 and
\* the unused low bits of the last byte zero, write_raw_cell writes as the
\* last data byte the data bits followed by a 1 bit and zeros, which is not
\* zero, and read_cell on the record gives back the same data bytes, unused
\* low bits cleared, and the same bit_len; read_cell fails with a
\* BocDeserializationError on a record whose partial last data byte is 0x00.
C16_PaddingRoundTrip ==
    /\ (call.op = "write_raw_cell" /\ call.done)
       => LET cell == call.cell
              n == Len(cell.data)
              last == call.out.written[2 + n]
          IN  /\ IsOk(call.out.e)
              /\ last # 0
              /\ last = cell.data[n] + Pow2(7 - (cell.bit_len % 8))
              /\ SubSeq(call.out.written, 3, 1 + n) = SubSeq(cell.data, 1, n - 1)
              /\ IsOk(call.out.read.e)
              /\ call.out.read.val.data = cell.data
              /\ call.out.read.val.bit_len = cell.bit_len
    /\ (call.op = "read_cell" /\ call.done /\ call.bytes[1 + (call.bytes[2] + 1) \div 2 + 1] = 0)
       => call.out.e.kind = "BocDeserializationError"

\* write_raw_cell has written a cell of 13 data bits whose last byte holds
\* the data bits 10100 and read_cell has read the record
C16_Witness ==
    /\ call.op = "write_raw_cell" /\ call.done
    /\ call.cell.bit_len = 13 /\ call.cell.data = <<255, 160>>
    /\ call.out.written = <<0, 3, 255, 164>>
    /\ IsOk(call.out.read.e)

\* C17: resolve_cell_type returns data[0] and leaves is_exotic true exactly
\* when is_exotic was true, data is not empty and data[0] is 1, 2, 3 or 4;
\* in every other case it returns 255 and sets is_exotic to false, so that
\* afterwards is_exotic holds iff the returned type is not 255.
C17_ResolveCellType ==
    (call.op = "resolve_cell_type" /\ call.done)
    => LET adopts == call.is_exotic /\ call.data # <<>> /\ call.data[1] \in {1, 2, 3, 4}
       IN  /\ adopts => (call.out.cell_type = call.data[1] /\ call.out.is_exotic)
           /\ ~adopts => (call.out.cell_type = 255 /\ ~call.out.is_exotic)
           /\ call.out.is_exotic <=> call.out.cell_type # 255

\* resolve_cell_type has returned the type 3 of an exotic cell
C17_Witness ==
    /\ call.op = "resolve_cell_type" /\ call.done
    /\ call.is_exotic /\ call.data = <<3>>
    /\ call.out.cell_type = 3 /\ call.out.is_exotic

\* C18: load_address on a cell that begins with the tag 10 consumes
\* 2 + 1 + 8 + 256 bits and returns an address whose workchain is the
\* two's-complement value of the 8-bit workchain field (0xFF is -1) and
\* whose hash part is the 256 bits that follow.
C18_AddressWorkchainSigned ==
    (call.op = "load_address" /\ call.done /\ call.tag = 2 /\ call.cs[1].bit_len >= 267)
    => /\ IsOk(call.out.e)
       /\ call.out.p.pos = 267
       /\ call.out.val.workchain = (IF call.wc < 128 THEN call.wc ELSE call.wc - 256)
       /\ call.out.val.hash_part = call.hash

\* C19: parse_fully returns Ok(v) only if the parser returned Ok(v) and left
\* no bit unread; it returns NonEmptyReader(n) exactly when the parser
\* returned Ok and left n > 0 bits unread; and when the parser returns an
\* error parse_fully returns that error.
C19_ParseFullyKeepsParserError ==
    (call.op = "parse_fully" /\ call.done)
    => LET parsed == call.out.parsed
           unread == remaining_at(parsed.p, parsed.p.pos)
       IN  /\ IsOk(call.out.e) => (IsOk(parsed.e) /\ call.out.val = parsed.val /\ unread = 0)
           /\ call.out.e.kind = "NonEmptyReader"
                 <=> (IsOk(parsed.e) /\ unread > 0 /\ call.out.e = NonEmptyReader(unread))
           /\ ~IsOk(parsed.e) => call.out.e = parsed.e

\* C20: load_hashmap, entered as deserialize enters it, returns on every
\* finite cell DAG and every key width, and the number of its calls that
\* are nested at any time is at most twice the depth of the DAG plus two: a
\* call either goes on from the label to the leaf or fork of the same cell
\* or goes down to a child.
C20_LoadHashmapTerminates ==
    /\ [](walk.pc \in {"run", "done"} => Len(walk.stack) <= 2 * cell_depth(walk.cs, walk.root) + 2)
    /\ <>(walk.pc = "done")

\* load_hashmap has returned Ok from a Hashmap of depth 2 with as many
\* nested calls as the bound allows, and with what the recursive reading of
\* its body gives
C20_Witness ==
    /\ walk.pc = "done" /\ IsOk(walk.ret.e)
    /\ cell_depth(walk.cs, walk.root) = 2 /\ walk.deepest = 6
    /\ Len(walk.hm.leaves) = 3
    /\ walk.hm = deserialize(walk.cs, walk.cs[walk.root], 0, parser(walk.cs[walk.root]), walk.n,
                             walk.f, NewHashmap, build).val

\* C21: load_ref_if_exist(ref_index, Some(parse)) with an index in range
\* advances ref_index by one; for a pruned branch it returns (None,
\* Some(reference)) whatever parse would do with the cell; for any other
\* cell it returns (Some(v), None) when parse returns Ok(v) and the error of
\* parse when parse fails; an Ok pair has exactly one Some.  With an index
\* out of range it returns InvalidIndex{idx, ref_count} and leaves
\* ref_index as it was.
C21_LoadRefIfExist ==
    (call.op = "load_ref_if_exist" /\ call.done) =>
        LET c == call.cs[call.at]
            i == call.ref_index
            child == call.cs[c.references[i + 1]]
            got == load_address(parser(child))
        IN  IF i < Len(c.references)
            THEN /\ call.out.ref_index = i + 1
                 /\ IsOk(call.out.e) => call.out.val.some # call.out.cell.some
                 /\ IF child.cell_type = PrunnedBranchCell
                    THEN /\ IsOk(call.out.e)
                         /\ call.out.val = None
                         /\ call.out.cell = Some(c.references[i + 1])
                    ELSE IF IsOk(got.e)
                    THEN /\ IsOk(call.out.e)
                         /\ call.out.val = Some(got.val)
                         /\ call.out.cell = None
                    ELSE call.out.e = got.e
            ELSE /\ call.out.e = InvalidIndex(i, Len(c.references))
                 /\ call.out.ref_index = i

\* load_ref_if_exist has returned (None, Some(reference)) for a pruned
\* branch on which parse would have failed
C21_Witness ==
    /\ call.op = "load_ref_if_exist" /\ call.done
    /\ call.ref_index = 1 /\ call.out.ref_index = 2
    /\ IsOk(call.out.e) /\ call.out.cell = Some(1) /\ call.out.val = None
    /\ ~IsOk(load_address(parser(call.cs[1])).e)

\* the bits of a key prefix as a string of the digits 0 and 1
PrefixString(bits) == [k \in 1..Len(bits) |-> Digits[bits[k] + 1]]

\* the keys of the call that do not begin with the prefix cut
KeysOutside(keys, n, cut) == {k \in keys : Take(U(k, n), Len(cut)) # cut}

\* C22: when load_hashmap reaches a pruned branch cell it appends the key
\* prefix accumulated so far, the key bits on the path to the cell, to
\* pruned; it calls the leaf function for no key below the cell and inserts
\* no entry for one, and it still decodes and inserts every leaf outside
\* the pruned subtree.
C22_PrunedPrefixRecorded ==
    (call.op = "deserialize_pruned" /\ call.done)
    => /\ IsOk(call.out.e)
       /\ call.out.val.pruned = <<PrefixString(call.cut)>>
       /\ Len(call.out.val.leaves) = Cardinality(KeysOutside(call.keys, call.n, call.cut))
       /\ {call.out.val.leaves[i] : i \in 1..Len(call.out.val.leaves)}
              = KeysOutside(call.keys, call.n, call.cut)
       /\ DOMAIN call.out.val.map
              = {to_str_radix(k, 16) : k \in KeysOutside(call.keys, call.n, call.cut)}
       /\ \A k \in KeysOutside(call.keys, call.n, call.cut) :
              call.out.val.map[to_str_radix(k, 16)] = ValidatorDescrOf(k)

\* C23: on a node whose label has more bits than the remaining key width n,
\* load_hashmap returns a CellParserError and inserts no entry; it does not
\* panic and does not go on with a key width that has wrapped around.
C23_LongLabelRejected ==
    (call.op = "deserialize_long_label" /\ call.done)
    => /\ call.out.e.kind = "CellParserError"
       /\ call.out.val.map = <<>>
       /\ call.out.val.leaves = <<>>

\* the least k with 2^k >= x, for x >= 1
CeilLog2(x) == CHOOSE k \in 0..31 : Pow2(k) >= x /\ (k = 0 \/ Pow2(k - 1) < x)

\* the number of bits the call is to consume: ceil(log2(m + 1)) for
\* load_uint_le(m), ceil(log2(m)) for load_uint_less(m)
BitsOfBound(op, m) == IF op = "load_uint_le" THEN CeilLog2(m + 1) ELSE CeilLog2(m)

\* C24: on a cell that holds the bits, load_uint_le(m) consumes exactly
\* ceil(log2(m + 1)) bits and load_uint_less(m), for m >= 1, exactly
\* ceil(log2(m)) bits; each returns the big-endian value of the bits it
\* consumed, which is 0 when it consumed none (m = 0, and m = 1 for
\* load_uint_less).
C24_BoundedUintWidth ==
    (/\ call.op \in {"load_uint_le", "load_uint_less"} /\ call.done
     /\ ~(call.op = "load_uint_less" /\ call.m = 0)
     /\ BitsOfBound(call.op, call.m) <= call.cs[call.at].bit_len)
    => /\ IsOk(call.out.e)
       /\ call.out.p.pos = BitsOfBound(call.op, call.m)
       /\ call.out.val = Num(Take(BitsOf(call.cs[call.at].data), BitsOfBound(call.op, call.m)))

\* C25: for a cell with bit_len in 0..1023 and data of ceil(bit_len / 8)
\* bytes, get_bits_descriptor, computed in 8-bit arithmetic, returns
\* 2 * ceil(bit_len / 8), less 1 when bit_len is no multiple of 8, the byte
\* write_raw_cell writes as d2, and no step of the computation overflows 8
\* bits, also not for the 128 bytes of 1017 to 1023 bits.
C25_BitsDescriptor ==
    (call.op = "get_bits_descriptor" /\ call.done)
    => /\ IsOk(call.out.e)
       /\ call.out.val = 2 * ((call.bit_len + 7) \div 8) - (IF call.bit_len % 8 = 0 THEN 0 ELSE 1)
       /\ call.out.val = call.out.written[2]
       /\ 2 * Len(call.data) <= 255

\* C26: for a Merkle-update cell, get_level_mask returns
\* (left.level_mask | right.level_mask) >> 1, the value finalize stores in
\* level_mask, for every pair of child level masks in 0..7.
C26_UpdateLevelMask ==
    (call.op = "get_level_mask" /\ call.done)
    => /\ IsOk(call.out.e)
       /\ call.out.val = BitOr(call.left, call.right) \div 2
       /\ call.out.val = call.out.stored

\* the handles of the cells that can be reached from cell k
RECURSIVE Reach(_, _)
Reach(cs, k) == {k} \cup UNION {Reach(cs, cs[k].references[j]) : j \in 1..Len(cs[k].references)}

\* a cell as a value: its data and the values of the cells it refers to
RECURSIVE CellValue(_, _)
CellValue(cs, k) ==
    [data |-> cs[k].data, bit_len |-> cs[k].bit_len,
     references |-> [j \in 1..Len(cs[k].references) |-> CellValue(cs, cs[k].references[j])]]

\* the same for the cell at index i (from 0) of a list of raw cells whose
\* references all point forward
RECURSIVE RawValue(_, _)
RawValue(rs, i) ==
    [data |-> rs[i + 1].data, bit_len |-> rs[i + 1].bit_len,
     references |-> [j \in 1..Len(rs[i + 1].references) |-> RawValue(rs, rs[i + 1].references[j])]]

ForwardOnly(rs) ==
    \A i \in 1..Len(rs) : \A j \in 1..Len(rs[i].references) :
        rs[i].references[j] > i - 1 /\ rs[i].references[j] < Len(rs)

\* C27: for an acyclic bag with one root, to_raw returns Ok whichever cell
\* the set no_in_refs yields at each step; every reference index is greater
\* than the index of the cell that holds it, which is the check of parse;
\* the root has index 0; and each distinct cell reachable from the root is
\* listed exactly once.
C27_ToRawTopological ==
    (call.op = "to_raw" /\ call.done)
    => /\ IsOk(call.out.e)
       /\ ForwardOnly(call.out.val.cells)
       /\ call.out.val.roots = <<0>>
       /\ RawValue(call.out.val.cells, 0) = CellValue(call.cs, call.at)
       /\ {RawValue(call.out.val.cells, i - 1) : i \in 1..Len(call.out.val.cells)}
              = {CellValue(call.cs, k) : k \in Reach(call.cs, call.at)}
       /\ \A i, j \in 1..Len(call.out.val.cells) :
              i # j => RawValue(call.out.val.cells, i - 1) # RawValue(call.out.val.cells, j - 1)

\* to_raw has listed the four cells of a diamond, the shared leaf last,
\* with the right child before the left one
C27_Witness ==
    /\ call.op = "to_raw" /\ call.done /\ IsOk(call.out.e)
    /\ call.cs[4].references = <<2, 3>> /\ call.cs[3].references = <<1>>
    /\ call.cs[2].references = <<1>> /\ call.cs[1].data # call.cs[2].data
    /\ Len(call.out.val.cells) = 4
    /\ call.out.val.cells[1].references = <<2, 1>>
    /\ call.out.val.cells[2].references = <<3>>

\* tot_cells_size as the envelope of SizedEnvelope declares it
declared_size(s) == read_var_size(s, 9, 2).val

\* C28: an envelope whose tot_cells_size is not the number of bytes of its
\* cell records is rejected with a BocDeserializationError.
C28_TotCellsSizeExact ==
    (call.op = "RawBagOfCells_parse" /\ call.done
        /\ declared_size(call.serial) # Len(EncodeCells(call.rs)))
    => call.out.e.kind = "BocDeserializationError"

\* C29: two inputs with has_crc32c set that differ in the four checksum
\* bytes only end BagOfCells::parse the same way: with the same error or
\* with the same bag.
C29_CrcBytesIgnored ==
    (call.op = "BagOfCells_parse" /\ call.done
        /\ Len(call.serial) = Len(call.other)
        /\ Bit(call.serial[5], 6) = 1
        /\ Take(call.serial, Len(call.serial) - 4) = Take(call.other, Len(call.other) - 4))
    => call.out.val = call.out.other

\* a bag of two cells parsed from an input that carries the checksum of its
\* bytes and from one that carries another checksum
C29_Witness ==
    /\ call.op = "BagOfCells_parse" /\ call.done
    /\ IsOk(call.out.e) /\ Len(call.out.val.cells) = 2
    /\ SubSeq(call.serial, Len(call.serial) - 3, Len(call.serial))
           = crc32c(Take(call.serial, Len(call.serial) - 4))
    /\ call.other # call.serial
    /\ Take(call.serial, Len(call.serial) - 4) = Take(call.other, Len(call.other) - 4)

\* C30: a read that would move the cursor past bit_len fails with a
\* CellParserError, and after reads that all succeeded the cursor is at
\* most bit_len and remaining_bits() is bit_len minus the cursor.
C30_ReadsConfined ==
    (call.op = "parser" /\ call.reads > 0)
    => /\ call.from + call.width > call.p.bit_len => call.out.e.kind = "CellParserError"
       /\ IsOk(call.out.e) => /\ call.p.pos <= call.p.bit_len
                              /\ remaining_bits(call.p) = {call.p.bit_len - call.p.pos}

====
